---- MODULE Spec2Model ----
(***************************************************************************)
(* StreamClips (GiliBot-V3): the clip ledger of a Twitch channel, the      *)
(* Twitch bearer-token cache and the poll-cycle engine, modelled from      *)
(* src/streamclips/streamtypes.py and src/streamclips/streamclips.py.      *)
(*                                                                         *)
(* Time is the wall clock (datetime.now().timestamp()) in whole seconds.   *)
(* A clip is identified with its id.  A ledger entry [id, timestamp] is    *)
(* the pair <<id, ts>>; a legacy entry (a bare id) is the 1-tuple <<id>>.  *)
(***************************************************************************)
EXTENDS Integers, Sequences, FiniteSets, TLC

VARIABLES
    now,            \* wall clock, seconds since the process started
    created,        \* platform: clip id -> creation time, or NotYet
    registered,     \* whether the TwitchStream object is in the registry
    knownclips,     \* TwitchStream.knownclips: the ledger
    default_existing_data,  \* the list object that is get_all_clips' default argument
    clip_embeds,    \* what the last get_new_clips returned
    novel,          \* history: the clips the last get_new_clips found to be new
    emitted,        \* history: clip id -> number of cycles that returned it
    following,      \* history: the channel was registered with no clip listed
                    \* and its poll cycles since are the end-to-end scenario's
    cycles,         \* history: those poll cycles
    run,            \* replay: how many runs of the novelty filter are done
    first_novel,    \* replay: what the first run returned
    first_now,      \* replay: when the first run was made
    ttv_bearer_cache,   \* StreamClips.ttv_bearer_cache
    issued,         \* token endpoint: how many tokens it has issued
    streams,        \* StreamClips.streams: the registry
    saved,          \* config.streams: the persisted snapshot
    pc,             \* where the cog and its background task stand
    idx,            \* check_clips: the position of its loop over self.streams
    sleeps,         \* how many times the engine loop has slept
    cancel,         \* the task's cancellation: none, requested, delivered
    exit,           \* why the task ended
    sent,           \* history: the notifications sent in the current cycle
    log,            \* history: per stream of the current cycle, what its
                    \* iteration gives from the registry of at_start alone
    at_start,       \* history: the registry when the current cycle started
    last_query,     \* history: the bearer the last platform query sent
    renewal,        \* history: the last maybe_renew_twitch_bearer_token call
    callers,        \* per caller of maybe_renew_twitch_bearer_token, where it stands
    asked,          \* history: per access token, the token requests made while
                    \* the cache held it
    cmds,           \* per destination, the command being handled for it
    visited,        \* history: the streams the current cycle has processed, and
                    \* whether the save_streams of line 413 returned for each
    unsaved,        \* history: a command handler ended before its save_streams
    before,         \* history: the ledger before the last run of the filter
    listed,         \* history: the clip listing call of the last operation, when
                    \* that was a seed_new_streamer or a single run of the
                    \* filter: the pages of the backend and what was returned
    paging,         \* a clip listing call in progress, request by request
    client,         \* history: the Twitch client operations made, with the
                    \* status each met and what it raised
    tokens,         \* bot.get_shared_api_tokens("twitch"): which keys are set
    owner_messages, \* history: how many messages the bot owners were sent
    refresh_timer,  \* config.refresh_timer
    last_timer,     \* history: the last `clipset timer` command
    interval,       \* the refresh_timer the engine loop read for its sleep
    livestreams,    \* YoutubeStream.livestreams
    not_livestreams, \* YoutubeStream.not_livestreams
    probe,          \* history: the last YoutubeStream.is_online call
    preexisting,    \* history: the clip ids listed to the seed_new_streamer call
                    \* that registered the channel
    delivery        \* history: the clips whose sending raised, those of them
                    \* that a later cycle was listed, and those of them that
                    \* a later cycle returned as new

ledgerVars == <<now, created, registered, knownclips, default_existing_data,
                clip_embeds, novel, emitted, following, cycles>>

replayVars == <<run, first_novel, first_now>>

engineVars == <<ttv_bearer_cache, issued, streams, saved, pc, idx, sleeps, cancel,
                exit, sent, log, at_start, last_query, renewal>>

commandVars == <<callers, asked, cmds, unsaved, before>>

clientVars == <<listed, paging, client>>

settingsVars == <<tokens, owner_messages, refresh_timer, last_timer, interval>>

youtubeVars == <<livestreams, not_livestreams, probe>>

vars == <<ledgerVars, replayVars, engineVars, commandVars, visited, clientVars,
          settingsVars, youtubeVars, preexisting, delivery>>

-----------------------------------------------------------------------------
(* Units and program constants *)

Hour == 60 * 60
Day == 24 * Hour

\* Mutant: the retention written in hours, shorter than the lookback window.
RetentionInHours == 7 * Hour

\* timedelta(days=7): the ledger retention of TwitchStream.get_new_clips
Retention == 7 * Day

\* timedelta(hours=48): the lookback window of TwitchStream.get_all_clips
ClipWindow == 48 * Hour

-----------------------------------------------------------------------------
(* Bounds of the model *)

\* the clock stops after this many days
MaxDays == 8

\* the longest clip listing the platform serves in one poll
MaxListing == 3

\* how many poll cycles after registration the history records
MaxCycles == 3

\* the longest the shared default list of get_all_clips grows
MaxSeeded == 3

\* the clips, named in the order the platform creates them
ClipOrder == <<"A", "B", "C">>

ClipIds == {ClipOrder[i] : i \in 1..Len(ClipOrder)}

NotYet == -1

-----------------------------------------------------------------------------
(* Sequences helpers *)

RECURSIVE SeqsUpTo(_, _)
SeqsUpTo(S, n) ==
    IF n = 0 THEN {<<>>}
    ELSE LET shorter == SeqsUpTo(S, n - 1)
         IN shorter \cup {Append(s, x) : s \in shorter, x \in S}

Range(s) == {s[i] : i \in 1..Len(s)}

\* the clip ids of a ledger, in its order
Ids(known) == [i \in 1..Len(known) |-> known[i][1]]

-----------------------------------------------------------------------------
(* TwitchStream: the clip listing *)

\* One HTTP response of the clips endpoint: the status, the clips of
\* data['data'], and whether data['pagination'] is non-empty (a cursor).
Response(status, data, cursor) == [status |-> status, data |-> data, cursor |-> cursor]

\* What a call returns or raises.
Returned(data) == [error |-> "none", data |-> data]
Raised(error) == [error |-> error, data |-> <<>>]

\* get_all_clips(logger, existing_data, pagination_cursor): `responses` are
\* the responses the platform serves to this request and to the requests
\* that follow its cursors (lines 292-305).
RECURSIVE get_all_clips(_, _)
get_all_clips(responses, existing_data) ==
    LET r == Head(responses)
    IN  IF r.status = 200
        THEN IF r.cursor
             THEN get_all_clips(Tail(responses), existing_data \o r.data)
             ELSE Returned(existing_data \o r.data)
        ELSE IF r.status = 404
             THEN Raised("StreamNotFound")
             ELSE Raised("APIError")

-----------------------------------------------------------------------------
(* TwitchStream.get_new_clips *)

IsList(existingclip) == Len(existingclip) = 2

\* Mutant: the expiry comparison of line 239 inverted.
RECURSIVE CarryForwardInverted(_, _)
CarryForwardInverted(known_clips, t) ==
    IF known_clips = <<>> THEN <<>>
    ELSE LET existingclip == Head(known_clips)
             rest == CarryForwardInverted(Tail(known_clips), t)
             clipexpiration == t - Retention
         IN  IF IsList(existingclip)
             THEN IF clipexpiration > existingclip[2]
                  THEN <<existingclip>> \o rest
                  ELSE rest
             ELSE <<<<existingclip[1], t>>>> \o rest

\* Mutant: lines 236-245 without the else branch of line 242.
RECURSIVE CarryForwardLists(_, _)
CarryForwardLists(known_clips, t) ==
    IF known_clips = <<>> THEN <<>>
    ELSE LET existingclip == Head(known_clips)
             rest == CarryForwardLists(Tail(known_clips), t)
             clipexpiration == t - Retention
         IN  IF IsList(existingclip) /\ clipexpiration < existingclip[2]
             THEN <<existingclip>> \o rest
             ELSE rest

\* Mutant: the carried-forward entries inserted at the front of
\* new_known_clips.
RECURSIVE CarryForwardReversed(_, _)
CarryForwardReversed(known_clips, t) ==
    IF known_clips = <<>> THEN <<>>
    ELSE LET existingclip == Head(known_clips)
             rest == CarryForwardReversed(Tail(known_clips), t)
             clipexpiration == t - Retention
         IN  IF IsList(existingclip)
             THEN IF clipexpiration < existingclip[2]
                  THEN rest \o <<existingclip>>
                  ELSE rest
             ELSE rest \o <<<<existingclip[1], t>>>>

\* Mutant: lines 236-245 without the expiry comparison.
RECURSIVE CarryForwardAll(_, _)
CarryForwardAll(known_clips, t) ==
    IF known_clips = <<>> THEN <<>>
    ELSE LET existingclip == Head(known_clips)
             rest == CarryForwardAll(Tail(known_clips), t)
         IN  IF IsList(existingclip)
             THEN <<existingclip>> \o rest
             ELSE <<<<existingclip[1], t>>>> \o rest

\* lines 236-245: carry forward the entries that have not aged off; a bare
\* id is re-added with the current time.
RECURSIVE CarryForward(_, _)
CarryForward(known_clips, t) ==
    IF known_clips = <<>> THEN <<>>
    ELSE LET existingclip == Head(known_clips)
             rest == CarryForward(Tail(known_clips), t)
             clipexpiration == t - Retention
         IN  IF IsList(existingclip)
             THEN IF clipexpiration < existingclip[2]
                  THEN <<existingclip>> \o rest
                  ELSE rest
             ELSE <<<<existingclip[1], t>>>> \o rest

\* Mutant: line 252 comparing the whole entry with the id.
CurrentClipFoundWholeEntry(new_known_clips, currentclip) ==
    \E i \in 1..Len(new_known_clips) : new_known_clips[i] = <<currentclip>>

\* lines 250-253
CurrentClipFound(new_known_clips, currentclip) ==
    \E i \in 1..Len(new_known_clips) : new_known_clips[i][1] = currentclip

\* The local variable clip_metadata: unbound until a get_clip_metadata call
\* has returned.  A bound value names the clip it was fetched for and
\* whether it holds the key "profile_image_url".
Unbound == [bound |-> FALSE, clip |-> "", profile |-> FALSE]
Metadata(clip, profile) == [bound |-> TRUE, clip |-> clip, profile |-> profile]

\* get_clip_metadata (lines 307-340) for one clip, by its outcome: "ok" (the
\* users endpoint answered), "noprofile" (it answered with an empty body, so
\* the keys of lines 335-338 are not set), "raise" (any exception).
MetadataOutcomes == {"ok", "noprofile", "raise"}

\* lines 261-264: the assignment happens only when the call returns.
AfterMetadata(clip_metadata, currentclip, outcome) ==
    IF outcome = "raise" THEN clip_metadata
    ELSE Metadata(currentclip, outcome = "ok")

\* make_clip_embeds (lines 342-355) raises when clip_metadata is unbound
\* (UnboundLocalError at the call) or lacks "profile_image_url" (KeyError).
EmbedRaises(clip_metadata) == ~clip_metadata.bound \/ ~clip_metadata.profile

\* lines 265-268
Embed(currentclip, clip_metadata) == [id |-> currentclip, meta |-> clip_metadata.clip]

\* lines 249-268: the loop over all_clip_data.  `outcome` gives, per clip,
\* how its get_clip_metadata call ends.
RECURSIVE ScanClips(_, _, _, _, _, _)
ScanClips(all_clip_data, new_known_clips, embeds, clip_metadata, outcome, t) ==
    IF all_clip_data = <<>>
    THEN [knownclips |-> new_known_clips, clip_embeds |-> embeds]
    ELSE LET currentclip == Head(all_clip_data)
         IN  IF CurrentClipFound(new_known_clips, currentclip)
             THEN ScanClips(Tail(all_clip_data), new_known_clips, embeds,
                            clip_metadata, outcome, t)
             ELSE LET md == AfterMetadata(clip_metadata, currentclip, outcome[currentclip])
                  IN  ScanClips(Tail(all_clip_data),
                                Append(new_known_clips, <<currentclip, t>>),
                                IF EmbedRaises(md) THEN embeds
                                ELSE Append(embeds, Embed(currentclip, md)),
                                md, outcome, t)

\* Mutant: new_known_clips is built in self.knownclips itself.
LedgerBuiltInPlace(known_clips, new_known_clips) == new_known_clips

\* What self.knownclips holds when get_all_clips raises at line 249:
\* new_known_clips is a list of its own (line 231) until line 270.
LedgerWhenRaised(known_clips, new_known_clips) == known_clips

\* get_new_clips (lines 225-271): the new value of self.knownclips and the
\* returned embeds, or the exception get_all_clips raised (self.knownclips is
\* assigned on the last line only).
get_new_clips(known_clips, responses, outcome, t) ==
    LET new_known_clips == CarryForward(known_clips, t)
        all_clip_data == get_all_clips(responses, <<>>)
    IN  IF all_clip_data.error # "none"
        THEN [error |-> all_clip_data.error,
              knownclips |-> LedgerWhenRaised(known_clips, new_known_clips),
              clip_embeds |-> <<>>]
        ELSE LET done == ScanClips(all_clip_data.data, new_known_clips, <<>>, Unbound, outcome, t)
             IN  [error |-> "none", knownclips |-> done.knownclips,
                  clip_embeds |-> done.clip_embeds]

EmbedIds(embeds) == [i \in 1..Len(embeds) |-> embeds[i].id]

-----------------------------------------------------------------------------
(* TwitchStream.seed_new_streamer *)

\* seed_new_streamer calls get_all_clips([logger, existing_data]) (line 219):
\* the one positional argument is bound to `logger`, so existing_data is the
\* function's default list, shared by every such call of the process, and
\* `logger` is a list: the logger.debug of line 286, reached with a
\* pagination cursor, raises AttributeError after the first page has been
\* appended.  Returns the outcome and the default list afterwards.
seed_get_all_clips(responses, default) ==
    LET r == Head(responses)
    IN  IF r.status = 200
        THEN IF r.cursor
             THEN [error |-> "AttributeError", data |-> <<>>, default |-> default \o r.data]
             ELSE [error |-> "none", data |-> default \o r.data, default |-> default \o r.data]
        ELSE [error |-> IF r.status = 404 THEN "StreamNotFound" ELSE "APIError",
              data |-> <<>>, default |-> default]

\* lines 217-223
seed_new_streamer(responses, default, t) ==
    LET all_clip_data == seed_get_all_clips(responses, default)
    IN  [error |-> all_clip_data.error,
         knownclips |-> [i \in 1..Len(all_clip_data.data) |-> <<all_clip_data.data[i], t>>],
         default |-> all_clip_data.default]

\* The record of a listing call: who made it, the pages of the backend, and
\* the outcome (error and data) of the call.
ListingCall(by, responses, all_clip_data) ==
    [by |-> by, pages |-> responses, error |-> all_clip_data.error,
     data |-> all_clip_data.data]

\* the items of the pages, in page order
RECURSIVE Concatenation(_)
Concatenation(responses) ==
    IF responses = <<>> THEN <<>>
    ELSE Head(responses).data \o Concatenation(Tail(responses))

-----------------------------------------------------------------------------
(* The platform, as the ledger specification sees it *)

\* The clips a query at time t for started_at = t - 48 h .. ended_at = t
\* (lines 280-284) may list.
InWindow(t) == {c \in ClipIds : created[c] # NotYet /\ created[c] >= t - ClipWindow
                                /\ created[c] <= t}

Injective(s) == \A i, j \in 1..Len(s) : s[i] = s[j] => i = j

\* The listings the platform may serve at time t: clips of the window in any
\* order, each once, or with the first clip listed once more at the end.
Listings(t) ==
    LET once == {s \in SeqsUpTo(InWindow(t), MaxListing) : Injective(s)}
    IN  once \cup {Append(s, s[1]) : s \in {x \in once : x # <<>> /\ Len(x) < MaxListing}}

AllOk == [c \in ClipIds |-> "ok"]

\* How the metadata calls of one cycle end, per clip: all return, or the
\* call for one listed clip fails (a call is made for a clip that the
\* carried-forward ledger does not hold).
Outcomes(listing) ==
    {AllOk} \cup {[c \in ClipIds |-> IF c = bad THEN how ELSE "ok"] :
                    bad \in {c \in Range(listing) :
                               ~CurrentClipFound(CarryForward(knownclips, now), c)},
                    how \in MetadataOutcomes \ {"ok"}}

\* The listing served in one page, or in two.
OnePage(listing) == <<Response(200, listing, FALSE)>>

TwoPages(listing) ==
    LET k == (Len(listing) + 1) \div 2
    IN  <<Response(200, SubSeq(listing, 1, k), TRUE),
          Response(200, SubSeq(listing, k + 1, Len(listing)), FALSE)>>

\* The request fails: on the first page, or on the second.
Failing(listing) ==
    {<<Response(404, <<>>, FALSE)>>,
     <<Response(500, <<>>, FALSE)>>,
     <<Response(200, listing, TRUE), Response(500, <<>>, FALSE)>>}

-----------------------------------------------------------------------------
(* The end-to-end scenario: the listing of the k-th poll cycle *)

ScenarioListing(k) == IF k <= 2 THEN <<"A", "B">> ELSE <<"A", "B", "C">>

CycleRecord(listing, outcome, result) ==
    [listing |-> listing,
     degraded |-> \E c \in Range(listing) : outcome[c] # "ok",
     novel |-> EmbedIds(result.clip_embeds),
     known |-> Ids(result.knownclips)]

\* The history follows the scenario while each cycle's listing is the
\* scenario's; any other cycle ends it.
Follows(listing, result) ==
    /\ following
    /\ Len(cycles) < MaxCycles
    /\ result.error = "none"
    /\ listing = ScenarioListing(Len(cycles) + 1)

-----------------------------------------------------------------------------
(* The Twitch bearer-token cache (streamclips.py) *)

\* line 167: the seconds before expiry from which the token is renewed
RenewMargin == 60

\* line 39: the default of config.refresh_timer, in seconds
DefaultRefreshTimer == 300

\* None: the bearer of a stream loaded while the cache held no token
None == 0

\* {}: the cache before a token was obtained (line 55)
EmptyCache == [access_token |-> None, expires_at |-> 0]

\* expires_in of the tokens the endpoint issues: one poll interval later such
\* a token has 30, 60 or 120 seconds left.
TokenLifetimes ==
    {DefaultRefreshTimer + 30, DefaultRefreshTimer + RenewMargin, DefaultRefreshTimer + 120}

\* How the POST to the token endpoint ends: "ok" (status 200, a token that
\* lasts expires_in), "rejected" (any other status), "malformed" (status
\* 200 with a body that is not JSON: data = {}), "unreachable" (session.post
\* raises).
Post(outcome, expires_in) == [outcome |-> outcome, expires_in |-> expires_in]

NoPost == Post("none", 0)

FailedPosts == {"rejected", "malformed", "unreachable"}

Posts == {Post("ok", e) : e \in TokenLifetimes} \cup {Post(o, 0) : o \in FailedPosts}

\* get_twitch_bearer_token (lines 106-163): the cache afterwards, the
\* exception that leaves the call, the POSTs made.  `token` is the token the
\* endpoint issues if it issues one.
get_twitch_bearer_token(cache, post, token, t) ==
    CASE post.outcome = "unreachable" ->
            [cache |-> cache, exc |-> "Exception", posts |-> 1]
      [] post.outcome = "rejected" ->
            [cache |-> cache, exc |-> "none", posts |-> 1]
      [] post.outcome = "malformed" ->
            [cache |-> EmptyCache, exc |-> "Exception", posts |-> 1]
      [] OTHER ->
            [cache |-> [access_token |-> token, expires_at |-> t + post.expires_in],
             exc |-> "none", posts |-> 1]

\* Mutant: the comparison of line 167 made strict.
ExpiringStrict(cache, t) == cache.expires_at - t < RenewMargin

\* line 167
Expiring(cache, t) == cache.expires_at - t <= RenewMargin

\* lines 166-167: the call renews
Renews(cache, t) == cache # EmptyCache /\ Expiring(cache, t)

\* maybe_renew_twitch_bearer_token (lines 165-168)
maybe_renew_twitch_bearer_token(cache, post, token, t) ==
    IF Renews(cache, t)
    THEN get_twitch_bearer_token(cache, post, token, t)
    ELSE [cache |-> cache, exc |-> "none", posts |-> 0]

\* The ways the endpoint may answer a maybe_renew call made now.
PostsFor(cache, t) == IF Renews(cache, t) THEN Posts ELSE {NoPost}

\* the destinations (ctx.channel.id) commands are sent from
Destinations == {1, 2}

\* the callers of maybe_renew_twitch_bearer_token: check_clips (line 408)
\* and stream_clip_alert (line 257)
Callers == {"check_clips", "stream_clip_alert"}

\* no command is being handled for a destination
NoCommand == [stage |-> "idle", name |-> "", checked |-> "none", last |-> "none"]

\* Init for the variables of the command handlers and of the concurrent
\* callers, in the specifications that do not run them.
\* no clip listing call in progress (paging)
NoCall == [platform |-> "none", pages |-> <<>>, existing_data |-> <<>>,
           at |-> "idle", requests |-> 0, served |-> <<>>]

\* no clip listing call yet (listed)
NoListing == [by |-> "none", pages |-> <<>>, error |-> "none", data |-> <<>>]

\* Init for the history of the platform clients.
ClientIdle ==
    /\ listed = NoListing
    /\ paging = NoCall
    /\ client = <<>>

\* client_id and client_secret are set (`set api twitch client_id ...
\* client_secret ...`)
BothKeys == [client_id |-> TRUE, client_secret |-> TRUE]

\* lines 108-111: a client id is set and tokens["client_secret"] raises
\* KeyError
MissingSecret(keys) == keys.client_id /\ ~keys.client_secret

\* lines 112-124: the messages one call of get_twitch_bearer_token sends to
\* the bot owners
OwnerNotified(keys) == IF MissingSecret(keys) THEN 1 ELSE 0

\* no `clipset timer` command yet
NoTimerCommand == [refresh_time |-> DefaultRefreshTimer, stored |-> DefaultRefreshTimer,
                   replied |-> "none"]

\* Init for the settings: both Twitch keys set, refresh_timer at its default
\* (global_defaults, line 39).
NoProbe == [n |-> 0, repeated |-> FALSE, ended |-> {}, exc |-> "none"]

NoDelivery == [failed |-> {}, relisted |-> {}, again |-> {}]

\* YoutubeStream.__init__ (lines 88-94): both lists start empty.
YoutubeIdle ==
    /\ livestreams = <<>>
    /\ not_livestreams = <<>>
    /\ probe = NoProbe

SettingsIdle ==
    /\ tokens = BothKeys
    /\ owner_messages = 0
    /\ refresh_timer = DefaultRefreshTimer
    /\ last_timer = NoTimerCommand
    /\ interval = DefaultRefreshTimer

CommandsIdle ==
    /\ callers = [c \in Callers |-> "idle"]
    /\ asked = <<>>
    /\ cmds = [d \in Destinations |-> NoCommand]
    /\ visited = <<>>
    /\ unsaved = FALSE
    /\ before = <<>>

\* Init for the variables of the engine in the specifications of the ledger.
EngineIdle ==
    /\ ttv_bearer_cache = EmptyCache
    /\ issued = 0
    /\ streams = <<>>
    /\ saved = <<>>
    /\ pc = "init"
    /\ idx = 1
    /\ sleeps = 0
    /\ cancel = "none"
    /\ exit = "none"
    /\ sent = {}
    /\ log = <<>>
    /\ at_start = <<>>
    /\ last_query = [bearer |-> None, cached |-> None]
    /\ renewal = [called |-> FALSE, populated |-> FALSE, remaining |-> 0, posts |-> 0,
                  outcome |-> "none", before |-> EmptyCache, after |-> EmptyCache,
                  proceeded |-> FALSE]

-----------------------------------------------------------------------------
(* One Twitch channel: the platform, registration, poll cycles *)

\* The clock advances by a day, between two operations: what the last
\* operation returned is gone.
Tick(days) ==
    /\ UNCHANGED <<paging, client, settingsVars, youtubeVars, preexisting, delivery>>
    /\ listed' = NoListing
    /\ UNCHANGED <<commandVars, visited>>
    /\ UNCHANGED engineVars
    /\ now < days * Day
    /\ now' = now + Day
    /\ clip_embeds' = <<>>
    /\ novel' = <<>>
    /\ UNCHANGED <<created, registered, knownclips, default_existing_data,
                   emitted, following, cycles, replayVars>>

\* The next clip is created on the platform.
CreateClip(i) ==
    /\ UNCHANGED <<paging, client, settingsVars, youtubeVars, preexisting, delivery>>
    /\ listed' = NoListing
    /\ UNCHANGED <<commandVars, visited>>
    /\ UNCHANGED engineVars
    /\ created[ClipOrder[i]] = NotYet
    /\ \A j \in 1..(i - 1) : created[ClipOrder[j]] # NotYet
    /\ created' = [created EXCEPT ![ClipOrder[i]] = now]
    /\ clip_embeds' = <<>>
    /\ novel' = <<>>
    /\ UNCHANGED <<now, registered, knownclips, default_existing_data,
                   emitted, following, cycles, replayVars>>

\* stream_clip_alert for a channel that is not tracked (lines 250-294): the
\* stream object is seeded and then added to the registry; an exception of
\* seed_new_streamer leaves the command before add_or_remove.
SeedNewStreamer(listing, responses) ==
    /\ UNCHANGED <<paging, client, settingsVars, youtubeVars, preexisting, delivery>>
    /\ listed' = ListingCall("seed_new_streamer", responses,
                            seed_get_all_clips(responses, default_existing_data))
    /\ UNCHANGED <<commandVars, visited>>
    /\ UNCHANGED engineVars
    /\ ~registered
    /\ Len(default_existing_data) + Len(listing) <= MaxSeeded
    /\ LET seeded == seed_new_streamer(responses, default_existing_data, now)
       IN  /\ default_existing_data' = seeded.default
           /\ IF seeded.error = "none"
              THEN /\ registered' = TRUE
                   /\ knownclips' = seeded.knownclips
                   /\ following' = (seeded.knownclips = <<>>)
                   /\ cycles' = <<>>
                   /\ emitted' = [c \in ClipIds |-> 0]
              ELSE UNCHANGED <<registered, knownclips, following, cycles, emitted>>
    /\ clip_embeds' = <<>>
    /\ novel' = <<>>
    /\ UNCHANGED <<now, created, replayVars>>

\* The clips a run of get_new_clips appended to the ledger.
NovelOf(known_clips, result, t) ==
    Ids(SubSeq(result.knownclips, Len(CarryForward(known_clips, t)) + 1,
               Len(result.knownclips)))

\* One poll cycle of the channel: check_clips calls get_new_clips (line 409).
GetNewClips(listing, responses, outcome) ==
    /\ UNCHANGED <<paging, client, settingsVars, youtubeVars, preexisting, delivery>>
    /\ listed' = NoListing
    /\ UNCHANGED <<commandVars, visited>>
    /\ UNCHANGED engineVars
    /\ registered
    /\ LET result == get_new_clips(knownclips, responses, outcome, now)
       IN  /\ knownclips' = result.knownclips
           /\ clip_embeds' = result.clip_embeds
           /\ novel' = IF result.error = "none" THEN NovelOf(knownclips, result, now) ELSE <<>>
           /\ emitted' = [c \in ClipIds |->
                            IF c \in Range(EmbedIds(result.clip_embeds))
                            THEN emitted[c] + 1 ELSE emitted[c]]
           /\ IF Follows(listing, result)
              THEN /\ cycles' = Append(cycles, CycleRecord(listing, outcome, result))
                   /\ UNCHANGED following
              ELSE /\ cycles' = <<>>
                   /\ following' = FALSE
    /\ UNCHANGED <<now, created, registered, default_existing_data, replayVars>>

\* A poll cycle with any listing of the window, served in any of the ways.
PollCycle ==
    \/ \E listing \in Listings(now) : \E outcome \in Outcomes(listing) :
           GetNewClips(listing, OnePage(listing), outcome)
    \/ \E listing \in Listings(now) : GetNewClips(listing, TwoPages(listing), AllOk)
    \/ \E responses \in Failing(<<>>) : GetNewClips(<<>>, responses, AllOk)

-----------------------------------------------------------------------------
(* LedgerSpec: the poll cycles of a channel that load_streams restored,    *)
(* over the days in which its ledger entries age off                       *)

\* how many clips are created while the ledger ages
AgingClips == Len(ClipOrder) - 1

LedgerInit ==
    /\ CommandsIdle
    /\ ClientIdle
    /\ SettingsIdle
    /\ YoutubeIdle
    /\ preexisting = {}
    /\ delivery = NoDelivery
    /\ EngineIdle
    /\ now = 0
    /\ novel = <<>>
    /\ run = 0
    /\ first_novel = <<>>
    /\ first_now = 0
    /\ default_existing_data = <<>>
    /\ clip_embeds = <<>>
    /\ emitted = [c \in ClipIds |-> 0]
    /\ following = FALSE
    /\ cycles = <<>>
    /\ registered = TRUE
    /\ \/ \* a channel saved with an empty ledger
          /\ knownclips = <<>>
          /\ created = [c \in ClipIds |-> NotYet]
       \/ \* a channel saved by the version that stored bare ids
          /\ knownclips = <<<<"A">>>>
          /\ created = [c \in ClipIds |-> IF c = "A" THEN 0 ELSE NotYet]

LedgerNext ==
    \/ Tick(MaxDays)
    \/ \E i \in 1..AgingClips : CreateClip(i)
    \/ PollCycle

LedgerSpec == LedgerInit /\ [][LedgerNext]_vars


\* C1: across the poll cycles of a channel, with the platform listing only
\* clips created inside the 48-hour window, no clip id is returned by more
\* than one cycle, also after its ledger entry has aged off.
NoClipEmittedTwice == \A c \in ClipIds : emitted[c] <= 1

\* A clip was returned by a cycle and its ledger entry has aged off.
EmittedClipAgedOff ==
    \E c \in ClipIds : emitted[c] = 1 /\ ~CurrentClipFound(knownclips, c)

\* C5: every clip a poll cycle found to be new has a payload among the
\* returned embeds, also when its metadata fetch failed.
EveryNovelClipHasPayload ==
    \A i \in 1..Len(novel) : novel[i] \in Range(EmbedIds(clip_embeds))

-----------------------------------------------------------------------------
(* E2ESpec: a channel from its registration on, over the first days *)

\* the days the end-to-end specification runs for
FirstDays == 1

E2EInit ==
    /\ CommandsIdle
    /\ ClientIdle
    /\ SettingsIdle
    /\ YoutubeIdle
    /\ preexisting = {}
    /\ delivery = NoDelivery
    /\ EngineIdle
    /\ now = 0
    /\ novel = <<>>
    /\ run = 0
    /\ first_novel = <<>>
    /\ first_now = 0
    /\ default_existing_data = <<>>
    /\ clip_embeds = <<>>
    /\ emitted = [c \in ClipIds |-> 0]
    /\ following = FALSE
    /\ cycles = <<>>
    /\ registered = FALSE
    /\ knownclips = <<>>
    /\ created = [c \in ClipIds |-> NotYet]

E2ENext ==
    \/ Tick(FirstDays)
    \/ \E i \in 1..Len(ClipOrder) : CreateClip(i)
    \/ \E listing \in Listings(now) :
       \E responses \in {OnePage(listing), TwoPages(listing)} \cup Failing(listing) :
           SeedNewStreamer(listing, responses)
    \/ PollCycle

E2ESpec == E2EInit /\ [][E2ENext]_vars

\* what the scenario's k-th cycle is to report
ScenarioNovel(k) == IF k = 1 THEN <<"A", "B">> ELSE IF k = 3 THEN <<"C">> ELSE <<>>

\* C2: from a newly registered channel, the first cycle listing [A, B]
\* reports A and B and records both, the second cycle with the same clips
\* reports nothing, the third cycle listing [A, B, C] reports exactly [C]
\* (each cycle's metadata calls returning).
EndToEnd ==
    following =>
        \A k \in 1..Len(cycles) :
            /\ cycles[k].known = ScenarioListing(k)
            /\ ~cycles[k].degraded => cycles[k].novel = ScenarioNovel(k)

\* The three cycles of the scenario have run.
ScenarioCompleted ==
    /\ following
    /\ Len(cycles) = 3
    /\ \A k \in 1..3 : ~cycles[k].degraded
    /\ clip_embeds = <<[id |-> "C", meta |-> "C"]>>

-----------------------------------------------------------------------------
(* ReplaySpec: the novelty filter run on any ledger and any candidates,    *)
(* then run again on what the first run returned                           *)

\* the longest ledger the replay starts from
MaxLedger == 2

ReplayClips == {"A", "B"}

\* Ledger entries as a store may hold them at time 0: bare ids, and pairs
\* aged exactly the retention, a day less, or new.
ReplayEntries ==
    {<<c>> : c \in ReplayClips}
    \cup {<<c, ts>> : c \in ReplayClips, ts \in {0 - Retention, Day - Retention, 0}}

ReplayInit ==
    /\ CommandsIdle
    /\ ClientIdle
    /\ SettingsIdle
    /\ YoutubeIdle
    /\ preexisting = {}
    /\ delivery = NoDelivery
    /\ EngineIdle
    /\ now = 0
    /\ novel = <<>>
    /\ run = 0
    /\ first_novel = <<>>
    /\ first_now = 0
    /\ default_existing_data = <<>>
    /\ clip_embeds = <<>>
    /\ emitted = [c \in ClipIds |-> 0]
    /\ following = FALSE
    /\ cycles = <<>>
    /\ registered = TRUE
    /\ created = [c \in ClipIds |-> NotYet]
    /\ knownclips \in SeqsUpTo(ReplayEntries, MaxLedger)

\* The first run, on any candidates.
FirstRun(candidates, outcome) ==
    /\ UNCHANGED <<clientVars, settingsVars, youtubeVars, preexisting, delivery>>
    /\ UNCHANGED <<commandVars, visited>>
    /\ UNCHANGED engineVars
    /\ run = 0
    /\ LET result == get_new_clips(knownclips, OnePage(candidates), outcome, now)
       IN  /\ knownclips' = result.knownclips
           /\ clip_embeds' = result.clip_embeds
           /\ novel' = NovelOf(knownclips, result, now)
           /\ first_novel' = EmbedIds(result.clip_embeds)
    /\ first_now' = now
    /\ run' = 1
    /\ UNCHANGED <<now, created, registered, default_existing_data,
                   emitted, following, cycles>>

\* Time passes between the two runs.
Wait ==
    /\ UNCHANGED <<clientVars, settingsVars, youtubeVars, preexisting, delivery>>
    /\ UNCHANGED <<commandVars, visited>>
    /\ UNCHANGED engineVars
    /\ run = 1
    /\ now < MaxDays * Day
    /\ now' = now + Day
    /\ UNCHANGED <<created, registered, knownclips, default_existing_data,
                   clip_embeds, novel, emitted, following, cycles, replayVars>>

\* The second run, on what the first run returned.
Replay(outcome) ==
    /\ UNCHANGED <<clientVars, settingsVars, youtubeVars, preexisting, delivery>>
    /\ UNCHANGED <<commandVars, visited>>
    /\ UNCHANGED engineVars
    /\ run = 1
    /\ LET result == get_new_clips(knownclips, OnePage(first_novel), outcome, now)
       IN  /\ knownclips' = result.knownclips
           /\ clip_embeds' = result.clip_embeds
           /\ novel' = NovelOf(knownclips, result, now)
    /\ run' = 2
    /\ UNCHANGED <<now, created, registered, default_existing_data,
                   emitted, following, cycles, first_novel, first_now>>

ReplayNext ==
    \/ \E candidates \in SeqsUpTo(ClipIds, MaxListing) :
       \E outcome \in Outcomes(candidates) : FirstRun(candidates, outcome)
    \/ Wait
    \/ \E outcome \in Outcomes(first_novel) : Replay(outcome)

ReplaySpec == ReplayInit /\ [][ReplayNext]_vars

\* C3: for every ledger and every candidate sequence, running the filter
\* again on the clips the first run returned finds no clip to be new (the
\* second run made before the first run's entries age off).
ReplayFindsNothing ==
    (run = 2 /\ now - first_now < Retention) => (novel = <<>> /\ clip_embeds = <<>>)

\* A replay, days after a first run that returned clips.
ReplayedLater ==
    /\ run = 2
    /\ first_novel # <<>>
    /\ now > first_now
    /\ now - first_now < Retention

-----------------------------------------------------------------------------
(* The registry and the poll-cycle engine (streamclips.py) *)

\* the engine loop sleeps at most this many times
MaxSleeps == 1

\* config.streams when the cog is loaded: two Twitch channels, the second
\* with two destinations.
StoredStreams ==
    <<[name |-> "foo", type |-> "TwitchStream", channels |-> <<1>>, knownclips |-> <<>>],
      [name |-> "bar", type |-> "TwitchStream", channels |-> <<1, 2>>, knownclips |-> <<>>]>>

\* Mutant: a snapshot of the destinations alone.
export_without_ledger(stream) ==
    [name |-> stream.name, type |-> stream.type, channels |-> stream.channels,
     knownclips |-> <<>>]

\* Stream.export (streamtypes.py lines 78-84): the attributes whose names do
\* not start with an underscore; _bearer is not among them.
export(stream) ==
    [name |-> stream.name, type |-> stream.type, channels |-> stream.channels,
     knownclips |-> stream.knownclips]

\* load_streams (lines 493-508): each stream is constructed with the access
\* token the cache holds at that moment (line 503), which TwitchStream.__init__
\* keeps as self._bearer.
load_streams(raw_streams, cache) ==
    [i \in 1..Len(raw_streams) |->
        [name |-> raw_streams[i].name, type |-> raw_streams[i].type,
         channels |-> raw_streams[i].channels, knownclips |-> raw_streams[i].knownclips,
         bearer |-> cache.access_token]]

\* Mutant: the iteration leaves the stored snapshot as it is.
save_streams_skipped(registry) == saved

\* save_streams (lines 510-515)
save_streams(registry) == [i \in 1..Len(registry) |-> export(registry[i])]

\* Mutant: the body of the loop of check_clips without its
\* contextlib.suppress.
SuppressedNever(exc) == FALSE

\* line 405: contextlib.suppress(Exception); asyncio.CancelledError is a
\* BaseException.
Suppressed(exc) == exc = "Exception"

\* line 395: except asyncio.CancelledError
CaughtByLoop(exc) == exc = "CancelledError"

\* Where the processing of one stream stops short, and by what: an exception
\* of save_streams or of channel.send, or the CancelledError raised at the
\* await the task is suspended in.
Halt(at, dest, by) == [at |-> at, dest |-> dest, by |-> by]

NoHalt == Halt("end", 0, "none")

\* lines 415-452: the notifications of one stream, to the destinations that
\* bot.get_channel resolves, up to the destination the sending stops at.
Notifications(stream, embeds, gone, halt) ==
    {<<stream.name, stream.channels[j], embeds[k].id>> :
        j \in {d \in 1..Len(stream.channels) :
                 /\ stream.channels[d] \notin gone
                 /\ halt.at = "send" => d < halt.dest},
        k \in 1..Len(embeds)}

\* What one iteration is to leave of a stream when nothing is raised in it,
\* by the stream alone: its ledger and its notifications.
Alone(stream, responses, outcome, gone, t, completed) ==
    LET result == get_new_clips(stream.knownclips, responses, outcome, t)
    IN  [completed |-> completed,
         knownclips |-> result.knownclips,
         sent |-> Notifications(stream, result.clip_embeds, gone, NoHalt)]

\* The phase in which the processing of the stream at idx ends.
StopsAt(renew, result, halt) ==
    IF halt.at = "renew" \/ renew.exc # "none" THEN "renew"
    ELSE IF halt.at = "fetch" \/ result.error # "none" THEN "fetch"
    ELSE halt.at

\* The exception that ends it.
StopsBy(renew, result, halt) ==
    IF halt.at = "renew" THEN halt.by
    ELSE IF renew.exc # "none" THEN renew.exc
    ELSE IF halt.at = "fetch" THEN halt.by
    ELSE IF result.error # "none" THEN "Exception"
    ELSE halt.by

\* Init for the variables of the ledger in the specification of the engine.
LedgerIdle ==
    /\ novel = <<>>
    /\ run = 0
    /\ first_novel = <<>>
    /\ first_now = 0
    /\ default_existing_data = <<>>
    /\ clip_embeds = <<>>
    /\ emitted = [c \in ClipIds |-> 0]
    /\ following = FALSE
    /\ cycles = <<>>
    /\ registered = FALSE
    /\ knownclips = <<>>
    /\ created = [c \in ClipIds |-> NotYet]

ledgerOnly == <<created, registered, knownclips, default_existing_data,
                clip_embeds, novel, emitted, following, cycles, replayVars>>

\* The cog is constructed (lines 52-68); config.streams holds the channels.
Init ==
    /\ CommandsIdle
    /\ ClientIdle
    /\ SettingsIdle
    /\ YoutubeIdle
    /\ preexisting = {}
    /\ delivery = NoDelivery
    /\ now = 0
    /\ LedgerIdle
    /\ ttv_bearer_cache = EmptyCache
    /\ issued = 0
    /\ streams = <<>>
    /\ saved = StoredStreams
    /\ pc = "init"
    /\ idx = 1
    /\ sleeps = 0
    /\ cancel = "none"
    /\ exit = "none"
    /\ sent = {}
    /\ log = <<>>
    /\ at_start = <<>>
    /\ last_query = [bearer |-> None, cached |-> None]
    /\ renewal = [called |-> FALSE, populated |-> FALSE, remaining |-> 0, posts |-> 0,
                  outcome |-> "none", before |-> EmptyCache, after |-> EmptyCache,
                  proceeded |-> FALSE]

\* initialize (lines 76-88): an exception of get_twitch_bearer_token leaves
\* the try block before load_streams and create_task.
Initialize(post) ==
    /\ UNCHANGED <<clientVars, youtubeVars, preexisting, delivery, tokens, refresh_timer, last_timer, interval>>
    /\ owner_messages' = owner_messages + OwnerNotified(tokens)
    /\ UNCHANGED <<commandVars, visited>>
    /\ pc = "init"
    /\ LET got == get_twitch_bearer_token(ttv_bearer_cache, post, issued + 1, now)
       IN  /\ ttv_bearer_cache' = got.cache
           /\ issued' = IF post.outcome = "ok" THEN issued + 1 ELSE issued
           /\ IF got.exc = "none"
              THEN /\ streams' = load_streams(saved, got.cache)
                   /\ at_start' = streams'
                   /\ pc' = "cycle"
              ELSE /\ pc' = "failed"
                   /\ UNCHANGED <<streams, at_start>>
    /\ UNCHANGED <<now, ledgerOnly, saved, idx, sleeps, cancel, exit, sent, log,
                   last_query, renewal>>

\* One iteration of the loop of check_clips (lines 402-452), for the stream
\* at idx, and what the exception that leaves it does to check_clips and to
\* _clip_alerts (lines 392-397).
CheckClipsBody(post, responses, outcome, gone, halt) ==
    /\ UNCHANGED <<clientVars, youtubeVars, preexisting, tokens, refresh_timer, last_timer,
                   interval>>
    /\ owner_messages' = IF Renews(ttv_bearer_cache, now)
                         THEN owner_messages + OwnerNotified(tokens)
                         ELSE owner_messages
    /\ UNCHANGED commandVars
    /\ pc = "cycle"
    /\ idx <= Len(streams)
    /\ (cancel = "requested") = (halt.by = "CancelledError")
    /\ LET stream == streams[idx]
           renew == IF halt.at = "renew"
                    THEN [cache |-> ttv_bearer_cache, exc |-> "none", posts |-> 1]
                    ELSE maybe_renew_twitch_bearer_token(ttv_bearer_cache, post,
                                                         issued + 1, now)
           result == get_new_clips(stream.knownclips, responses, outcome, now)
           at == StopsAt(renew, result, halt)
           by == StopsBy(renew, result, halt)
           fetched == at \notin {"renew", "fetch"}
           stored == at \notin {"renew", "fetch", "save"}
       IN  /\ halt.at = "renew" => Renews(ttv_bearer_cache, now)
           /\ halt.at = "send" =>
                 /\ fetched
                 /\ result.clip_embeds # <<>>
                 /\ halt.dest \in 1..Len(stream.channels)
                 /\ stream.channels[halt.dest] \notin gone
           /\ ttv_bearer_cache' = renew.cache
           /\ issued' = IF halt.at # "renew" /\ post.outcome = "ok"
                        THEN issued + 1 ELSE issued
           /\ renewal' = [called |-> TRUE,
                          populated |-> ttv_bearer_cache # EmptyCache,
                          remaining |-> ttv_bearer_cache.expires_at - now,
                          posts |-> renew.posts,
                          outcome |-> IF halt.at = "renew" THEN "cancelled" ELSE post.outcome,
                          before |-> ttv_bearer_cache,
                          after |-> renew.cache,
                          proceeded |-> at # "renew"]
           /\ last_query' = IF at # "renew"
                            THEN [bearer |-> stream.bearer, cached |-> renew.cache.access_token]
                            ELSE last_query
           /\ streams' = IF at # "renew" /\ halt.at # "fetch"
                         THEN [streams EXCEPT ![idx].knownclips = result.knownclips]
                         ELSE streams
           /\ saved' = IF stored THEN save_streams(streams') ELSE saved
           /\ sent' = IF stored
                      THEN sent \cup Notifications(stream, result.clip_embeds, gone, halt)
                      ELSE sent
           /\ log' = Append(log, Alone(at_start[idx], responses, outcome, gone, now,
                                        at = "end"))
           /\ visited' = Append(visited, [name |-> stream.name, stored |-> stored])
           /\ IF by = "none" \/ Suppressed(by)
              THEN /\ idx' = idx + 1
                   /\ UNCHANGED <<pc, exit, cancel>>
              ELSE IF CaughtByLoop(by)
              THEN /\ pc' = "timer"
                   /\ cancel' = "delivered"
                   /\ UNCHANGED <<idx, exit>>
              ELSE /\ pc' = "done"
                   /\ exit' = "error"
                   /\ UNCHANGED <<idx, cancel>>
    /\ UNCHANGED <<now, ledgerOnly, sleeps, at_start>>

\* The iteration, the history of deliveries not being kept.
CheckStream(post, responses, outcome, gone, halt) ==
    /\ CheckClipsBody(post, responses, outcome, gone, halt)
    /\ UNCHANGED delivery

\* check_clips returns: its loop is over.
EndCycle ==
    /\ UNCHANGED <<clientVars, settingsVars, youtubeVars, preexisting, delivery>>
    /\ UNCHANGED <<commandVars, visited>>
    /\ pc = "cycle"
    /\ idx > Len(streams)
    /\ pc' = "timer"
    /\ UNCHANGED <<now, ledgerOnly, ttv_bearer_cache, issued, streams, saved, idx,
                   sleeps, cancel, exit, sent, log, at_start, last_query, renewal>>

\* line 397: await self.config.refresh_timer(), outside the try block.
ReadTimer(ok) ==
    /\ UNCHANGED <<clientVars, youtubeVars, preexisting, delivery, tokens, owner_messages, refresh_timer, last_timer>>
    /\ interval' = IF ok THEN refresh_timer ELSE interval
    /\ UNCHANGED <<commandVars, visited>>
    /\ pc = "timer"
    /\ cancel # "requested"
    /\ IF ok
       THEN /\ pc' = "sleep"
            /\ UNCHANGED exit
       ELSE /\ pc' = "done"
            /\ exit' = "error"
    /\ UNCHANGED <<now, ledgerOnly, ttv_bearer_cache, issued, streams, saved, idx,
                   sleeps, cancel, sent, log, at_start, last_query, renewal>>

\* line 397: asyncio.sleep returns and the loop starts the next cycle.
Wake ==
    /\ UNCHANGED <<clientVars, settingsVars, youtubeVars, preexisting, delivery>>
    /\ UNCHANGED commandVars
    /\ visited' = <<>>
    /\ pc = "sleep"
    /\ cancel # "requested"
    /\ sleeps < MaxSleeps
    /\ sleeps' = sleeps + 1
    /\ now' = now + interval
    /\ pc' = "cycle"
    /\ idx' = 1
    /\ sent' = {}
    /\ log' = <<>>
    /\ at_start' = streams
    /\ UNCHANGED <<ledgerOnly, ttv_bearer_cache, issued, streams, saved, cancel, exit,
                   last_query, renewal>>

\* cog_unload (lines 517-519): self.task.cancel(), once.
CogUnload ==
    /\ UNCHANGED <<clientVars, settingsVars, youtubeVars, preexisting, delivery>>
    /\ UNCHANGED <<commandVars, visited>>
    /\ pc \in {"cycle", "timer", "sleep"}
    /\ cancel = "none"
    /\ cancel' = "requested"
    /\ UNCHANGED <<now, ledgerOnly, ttv_bearer_cache, issued, streams, saved, pc, idx,
                   sleeps, exit, sent, log, at_start, last_query, renewal>>

\* The CancelledError is raised at line 397, outside the try block, or in a
\* check_clips that awaits nothing (its loop is over): the task ends.
CancelledOutsideCycle ==
    /\ UNCHANGED <<clientVars, settingsVars, youtubeVars, preexisting, delivery>>
    /\ UNCHANGED <<commandVars, visited>>
    /\ cancel = "requested"
    /\ pc \in {"timer", "sleep"}
    /\ pc' = "done"
    /\ exit' = "cancelled"
    /\ cancel' = "delivered"
    /\ UNCHANGED <<now, ledgerOnly, ttv_bearer_cache, issued, streams, saved, idx,
                   sleeps, sent, log, at_start, last_query, renewal>>

\* The listings a poll of the engine may be served: no clip, one, two.
PolledOrder == <<"A", "B">>

Polled == {SubSeq(PolledOrder, 1, n) : n \in 0..Len(PolledOrder)}

\* The destinations bot.get_channel does not resolve: none, or the first.
Gone(stream) == {{}, {stream.channels[1]}}

\* The exception, if any, that the task is to meet in this iteration.
Raising == IF cancel = "requested" THEN "CancelledError" ELSE "Exception"

RaisingPosts == {"malformed", "unreachable"}

\* An iteration that ends in the token renewal.
StopsInRenewal(posts) ==
    \/ \E post \in {p \in posts : p.outcome \in RaisingPosts} :
           CheckStream(post, OnePage(<<>>), AllOk, {}, NoHalt)
    \/ CheckStream(NoPost, OnePage(<<>>), AllOk, {}, Halt("renew", 0, "CancelledError"))

\* An iteration that ends in the platform query.
StopsInFetch(posts) ==
    \E post \in {p \in posts : p.outcome \notin RaisingPosts} :
        \/ \E responses \in Failing(<<>>) : CheckStream(post, responses, AllOk, {}, NoHalt)
        \/ CheckStream(post, OnePage(<<>>), AllOk, {}, Halt("fetch", 0, "CancelledError"))

\* An iteration that gets its clips: it ends when saving, when sending, or
\* it completes.
StopsLater(posts) ==
    /\ pc = "cycle"
    /\ idx <= Len(streams)
    /\ \E post \in {p \in posts : p.outcome \notin RaisingPosts} :
       \E listing \in Polled :
           \/ CheckStream(post, OnePage(listing), AllOk, {}, Halt("save", 0, Raising))
           \/ \E gone \in Gone(streams[idx]) : \E dest \in 1..Len(streams[idx].channels) :
                  CheckStream(post, OnePage(listing), AllOk, gone, Halt("send", dest, Raising))
           \/ \E gone \in Gone(streams[idx]) :
                  CheckStream(post, OnePage(listing), AllOk, gone, NoHalt)

Next ==
    \/ \E post \in Posts : Initialize(post)
    \/ StopsInRenewal(PostsFor(ttv_bearer_cache, now))
    \/ StopsInFetch(PostsFor(ttv_bearer_cache, now))
    \/ StopsLater(PostsFor(ttv_bearer_cache, now))
    \/ EndCycle
    \/ \E ok \in BOOLEAN : ReadTimer(ok)
    \/ Wake
    \/ CogUnload
    \/ CancelledOutsideCycle

Spec == Init /\ [][Next]_vars

\* C4: when a poll cycle is over, every registered channel has been
\* processed, and each channel whose own processing raised nothing has the
\* ledger and the notifications that the novelty filter gives for its own
\* ledger and its own listing, whatever was raised for the other channels.
FailureIsolation ==
    (pc \in {"timer", "sleep", "done"} /\ cancel # "delivered") =>
        /\ Len(log) = Len(streams)
        /\ \A i \in 1..Len(log) :
              log[i].completed =>
                  /\ streams[i].knownclips = log[i].knownclips
                  /\ {n \in sent : n[1] = streams[i].name} = log[i].sent

\* A cycle is over in which the first channel raised and the second one
\* notified its destinations.
SecondChannelNotifiedAfterFailure ==
    /\ pc = "timer"
    /\ cancel = "none"
    /\ Len(log) = 2
    /\ ~log[1].completed
    /\ log[2].completed
    /\ \E n \in sent : n[1] = streams[2].name

\* C6: the engine task ends only by being cancelled: no failure inside a
\* poll cycle and no failure reading the poll interval ends it.
LoopEndsOnlyWhenCancelled == pc = "done" => cancel # "none"

\* C7: a task in which the cancellation of cog_unload has been raised has
\* ended, whether it was raised in the sleep or inside a poll cycle (the
\* cancellation is requested once: a task that outlives it is never ended).
CancelledTaskHasEnded == cancel = "delivered" => pc = "done"

\* C8: the bearer a Twitch channel sends with its platform query, made after
\* the refresh step of its poll, is the access token the cache holds then.
QueryUsesCachedToken == last_query.bearer = last_query.cached

\* C9: on a populated cache, maybe_renew_twitch_bearer_token makes exactly
\* one token request when expires_at - now <= 60 and none when it is more.
RenewsOnceWithinMargin ==
    (renewal.called /\ renewal.populated) =>
        renewal.posts = IF renewal.remaining <= 60 THEN 1 ELSE 0

\* A call made with 60 seconds left, the last second that renews.
RenewedAtTheMargin ==
    /\ renewal.called
    /\ renewal.populated
    /\ renewal.remaining = 60
    /\ renewal.posts = 1
    /\ renewal.outcome = "ok"

\* C12: a consumer that calls maybe_renew_twitch_bearer_token while the cache
\* is empty (the acquisition at startup failed) asks the endpoint for a
\* token.
EmptyCacheIsAcquired ==
    (renewal.called /\ ~renewal.populated) => renewal.posts >= 1

\* C17: a channel whose iteration reached the end of its save_streams
\* (line 413) has its ledger in the snapshot from then on: before the next
\* channel is queried, and whatever happens to the channels after it in the
\* cycle.
LedgerStoredBeforeNextChannel ==
    \A k \in 1..Len(visited) :
        visited[k].stored => saved[k].knownclips = streams[k].knownclips

\* A channel's new ledger is in the snapshot and the iteration of the channel
\* after it did not get to its save_streams.
StoredThenLaterFailed ==
    \E k \in 1..Len(visited) :
        /\ visited[k].stored
        /\ saved[k].knownclips # <<>>
        /\ k + 1 <= Len(visited)
        /\ ~visited[k + 1].stored
        /\ saved[k].knownclips = streams[k].knownclips

\* C19: when initialize has returned and no poll has run yet, the registry
\* holds what the stored snapshot holds, whatever the token request of
\* initialize met.
RegistryRestored ==
    (pc \in {"cycle", "failed"} /\ sleeps = 0 /\ visited = <<>>) =>
        save_streams(streams) = saved

\* C10: a token refresh that fails leaves the cache as it was, is made once,
\* and its caller goes on to the platform query.
FailedRefreshLeavesCache ==
    renewal.outcome \in FailedPosts =>
        /\ renewal.after = renewal.before
        /\ renewal.posts = 1
        /\ renewal.proceeded

-----------------------------------------------------------------------------
(* RefreshSpec: the two callers of maybe_renew_twitch_bearer_token, each   *)
(* suspended in the token request while the other runs                     *)

\* the clock of this specification advances in steps of this many seconds
ClockStep == RenewMargin

\* and stops after this many steps
MaxElapsed == 11

\* The cog holds the token that initialize obtained at time 0.
RefreshInit ==
    /\ now = 0
    /\ LedgerIdle
    /\ \E post \in {p \in Posts : p.outcome = "ok"} :
           ttv_bearer_cache = get_twitch_bearer_token(EmptyCache, post, 1, 0).cache
    /\ issued = 1
    /\ streams = <<>>
    /\ saved = <<>>
    /\ pc = "init"
    /\ idx = 1
    /\ sleeps = 0
    /\ cancel = "none"
    /\ exit = "none"
    /\ sent = {}
    /\ log = <<>>
    /\ at_start = <<>>
    /\ last_query = [bearer |-> None, cached |-> None]
    /\ renewal = [called |-> FALSE, populated |-> FALSE, remaining |-> 0, posts |-> 0,
                  outcome |-> "none", before |-> EmptyCache, after |-> EmptyCache,
                  proceeded |-> FALSE]
    /\ CommandsIdle
    /\ ClientIdle
    /\ SettingsIdle
    /\ YoutubeIdle
    /\ preexisting = {}
    /\ delivery = NoDelivery

Elapse ==
    /\ UNCHANGED <<clientVars, settingsVars, youtubeVars, preexisting, delivery>>
    /\ now < MaxElapsed * ClockStep
    /\ now' = now + ClockStep
    /\ UNCHANGED <<ledgerOnly, engineVars, commandVars, visited>>

\* A caller enters maybe_renew_twitch_bearer_token: lines 166-167 hold, and
\* get_twitch_bearer_token sends its request and awaits the answer (line
\* 126).  A call for which they do not hold returns at once.
BeginRenew(c) ==
    /\ UNCHANGED <<clientVars, youtubeVars, preexisting, delivery, tokens, refresh_timer, last_timer, interval>>
    /\ owner_messages' = owner_messages + OwnerNotified(tokens)
    /\ callers[c] = "idle"
    /\ Renews(ttv_bearer_cache, now)
    /\ callers' = [callers EXCEPT ![c] = "posting"]
    /\ asked' = Append(asked, ttv_bearer_cache.access_token)
    /\ UNCHANGED <<now, ledgerOnly, engineVars, cmds, unsaved, before, visited>>

\* The answer arrives and the caller runs lines 134-163.
EndRenew(c, post) ==
    /\ UNCHANGED <<clientVars, settingsVars, youtubeVars, preexisting, delivery>>
    /\ callers[c] = "posting"
    /\ LET got == get_twitch_bearer_token(ttv_bearer_cache, post, issued + 1, now)
       IN  /\ ttv_bearer_cache' = got.cache
           /\ issued' = IF post.outcome = "ok" THEN issued + 1 ELSE issued
    /\ callers' = [callers EXCEPT ![c] = "idle"]
    /\ UNCHANGED <<now, ledgerOnly, streams, saved, pc, idx, sleeps, cancel, exit, sent,
                   log, at_start, last_query, renewal, asked, cmds, unsaved, before,
                   visited>>

\* The endpoint answers every request of this specification with a token.
RefreshNext ==
    \/ Elapse
    \/ \E c \in Callers : BeginRenew(c)
    \/ \E c \in Callers : \E post \in {p \in Posts : p.outcome = "ok"} : EndRenew(c, post)

RefreshSpec == RefreshInit /\ [][RefreshNext]_vars

\* C11: with the poll cycle and a command handler both running the refresh
\* check, the token endpoint is asked at most once for an expiring token: no
\* two requests are made while the cache holds the same token.
RefreshedOncePerExpiry ==
    \A i, j \in 1..Len(asked) : asked[i] = asked[j] => i = j

-----------------------------------------------------------------------------
(* RegistrySpec: the commands that change the registry, handled for two    *)
(* destinations at a time                                                  *)

\* str.lower() on the channel names of this specification
Lower == [n \in {"foo", "FOO", "bar"} |-> IF n = "FOO" THEN "foo" ELSE n]

\* data["data"][0]["user_name"]: the name the platform reports for a channel
\* that is live (TwitchStream.is_online, line 372)
UserName == [n \in {"foo", "FOO"} |-> "FOO"]

\* the channel names the commands are given
CommandNames == {"foo", "FOO"}

\* get_stream (lines 361-376): the position of the first stream of that
\* class whose name matches, 0 for None.
get_stream(registry, class, name) ==
    LET found == {i \in 1..Len(registry) :
                    registry[i].type = class /\ Lower[registry[i].name] = Lower[name]}
    IN  IF found = {} THEN 0 ELSE CHOOSE i \in found : \A j \in found : i <= j

\* list.remove: without the first occurrence of x
RemoveFirst(list, x) ==
    LET at == CHOOSE i \in 1..Len(list) : list[i] = x /\ \A j \in 1..(i - 1) : list[j] # x
    IN  SubSeq(list, 1, at - 1) \o SubSeq(list, at + 1, Len(list))

\* list.remove for a stream object: without the element at that position
RemoveAt(list, at) == SubSeq(list, 1, at - 1) \o SubSeq(list, at + 1, Len(list))

\* Mutant: the tests of lines 209 and 350 never hold.
EmptiedNever(channels) == FALSE

\* `not stream.channels` (lines 209 and 350)
Emptied(channels) == channels = <<>>

\* add_or_remove (lines 339-351) for the stream at position `at` of the
\* registry: the registry afterwards.
add_or_remove(registry, at, channel_id) ==
    LET stream == registry[at]
    IN  IF channel_id \notin Range(stream.channels)
        THEN [registry EXCEPT ![at].channels = Append(stream.channels, channel_id)]
        ELSE LET channels == RemoveFirst(stream.channels, channel_id)
             IN  IF Emptied(channels)
                 THEN RemoveAt(registry, at)
                 ELSE [registry EXCEPT ![at].channels = channels]

\* add_or_remove for a stream object that stream_clip_alert has constructed:
\* its channels are [], and it is not in the registry (lines 340-342).
add_new(registry, stream, channel_id) ==
    Append(registry, [stream EXCEPT !.channels = <<channel_id>>])

\* lines 202-207: the loop over stream.channels, which removes from the list
\* it iterates; `i` is the position of the list iterator.
RECURSIVE StopChannels(_, _, _, _)
StopChannels(channels, i, channel_id, all) ==
    IF i > Len(channels) THEN channels
    ELSE IF channels[i] = channel_id \/ all
         THEN StopChannels(RemoveFirst(channels, channels[i]), i + 1, channel_id, all)
         ELSE StopChannels(channels, i + 1, channel_id, all)

\* clipalert_stop (lines 197-215): the registry afterwards.
RECURSIVE clipalert_stop(_, _, _)
clipalert_stop(registry, channel_id, all) ==
    IF registry = <<>> THEN <<>>
    ELSE LET stream == Head(registry)
             channels == StopChannels(stream.channels, 1, channel_id, all)
             rest == clipalert_stop(Tail(registry), channel_id, all)
         IN  IF Emptied(channels) THEN rest
             ELSE <<[stream EXCEPT !.channels = channels]>> \o rest

\* How the existence check of a channel ends: it is live, it is not live
\* (OfflineStream), or is_online raises StreamNotFound,
\* InvalidTwitchCredentials or APIError.
CheckOutcomes == {"online", "offline", "StreamNotFound", "InvalidTwitchCredentials", "APIError"}

\* Mutant: check_exists answering True whatever is_online raises.
check_exists_always(outcome) == "True"

\* check_exists (lines 378-388): True, False, or the exception it re-raises.
check_exists(outcome) ==
    IF outcome \in {"online", "offline"} THEN "True"
    ELSE IF outcome = "StreamNotFound" THEN "False"
    ELSE outcome

\* The cog has started: the token is cached and the stored channels loaded.
RegistryInit ==
    /\ now = 0
    /\ LedgerIdle
    /\ ttv_bearer_cache = get_twitch_bearer_token(EmptyCache, Post("ok", Day), 1, 0).cache
    /\ issued = 1
    /\ streams = load_streams(StoredStreams, ttv_bearer_cache)
    /\ saved = StoredStreams
    /\ pc = "sleep"
    /\ idx = 1
    /\ sleeps = 0
    /\ cancel = "none"
    /\ exit = "none"
    /\ sent = {}
    /\ log = <<>>
    /\ at_start = <<>>
    /\ last_query = [bearer |-> None, cached |-> None]
    /\ renewal = [called |-> FALSE, populated |-> FALSE, remaining |-> 0, posts |-> 0,
                  outcome |-> "none", before |-> EmptyCache, after |-> EmptyCache,
                  proceeded |-> FALSE]
    /\ CommandsIdle
    /\ ClientIdle
    /\ SettingsIdle
    /\ YoutubeIdle
    /\ preexisting = {}
    /\ delivery = NoDelivery

registryOnly == <<now, ledgerOnly, ttv_bearer_cache, issued, pc, idx, sleeps, cancel, exit,
                  sent, log, at_start, last_query, renewal, callers, asked, before, visited>>

\* stream_clip_alert (lines 249-266 and 294) up to its first await: for a
\* tracked channel add_or_remove changes the registry and awaits ctx.send;
\* for an untracked one the stream object is constructed and check_exists
\* awaited (the cached token of this specification is not expiring, so
\* maybe_renew_twitch_bearer_token returns at once).
StreamClipAlert(d, name) ==
    /\ UNCHANGED <<clientVars, settingsVars, youtubeVars, preexisting, delivery>>
    /\ cmds[d].stage = "idle"
    /\ ~Renews(ttv_bearer_cache, now)
    /\ LET at == get_stream(streams, "TwitchStream", name)
       IN  IF at # 0
           THEN /\ streams' = add_or_remove(streams, at, d)
                /\ cmds' = [cmds EXCEPT ![d] =
                              [stage |-> "replying", name |-> "", checked |-> "none",
                               last |-> IF d \in Range(streams[at].channels)
                                        THEN "removed" ELSE "added"]]
           ELSE /\ cmds' = [cmds EXCEPT ![d] =
                              [stage |-> "checking", name |-> name, checked |-> "none",
                               last |-> "none"]]
                /\ UNCHANGED streams
    /\ UNCHANGED <<registryOnly, saved, unsaved>>

\* lines 266-291: check_exists has ended.
CheckExists(d, outcome) ==
    /\ UNCHANGED <<clientVars, settingsVars, youtubeVars, preexisting, delivery>>
    /\ cmds[d].stage = "checking"
    /\ cmds' = [cmds EXCEPT ![d] =
                  IF check_exists(outcome) = "True"
                  THEN [stage |-> "seeding",
                        name |-> IF outcome = "online" THEN UserName[cmds[d].name]
                                 ELSE cmds[d].name,
                        checked |-> outcome, last |-> "none"]
                  ELSE [stage |-> "idle", name |-> "", checked |-> outcome,
                        last |-> outcome]]
    /\ UNCHANGED <<registryOnly, streams, saved, unsaved>>

\* lines 292-294: seed_new_streamer has ended; an exception of it ends the
\* command, otherwise add_or_remove adds the new stream and awaits ctx.send.
Seeded(d, responses) ==
    /\ UNCHANGED <<clientVars, settingsVars, youtubeVars, preexisting, delivery>>
    /\ cmds[d].stage = "seeding"
    /\ LET seeded == seed_new_streamer(responses, default_existing_data, now)
           stream == [name |-> cmds[d].name, type |-> "TwitchStream", channels |-> <<>>,
                      knownclips |-> seeded.knownclips,
                      bearer |-> ttv_bearer_cache.access_token]
       IN  /\ default_existing_data' = seeded.default
           /\ IF seeded.error = "none"
              THEN /\ streams' = add_new(streams, stream, d)
                   /\ cmds' = [cmds EXCEPT ![d] = [stage |-> "replying", name |-> "",
                                                   checked |-> "none", last |-> "added"]]
              ELSE /\ cmds' = [cmds EXCEPT ![d] = [stage |-> "idle", name |-> "",
                                                   checked |-> "none",
                                                   last |-> seeded.error]]
                   /\ UNCHANGED streams
    /\ UNCHANGED <<now, created, registered, knownclips, clip_embeds, novel, emitted,
                   following, cycles, replayVars, ttv_bearer_cache, issued, pc, idx,
                   sleeps, cancel, exit, sent, log, at_start, last_query, renewal,
                   callers, asked, before, visited, saved, unsaved>>

\* add_or_remove, lines 343-358: ctx.send has returned and save_streams
\* runs, or ctx.send has raised.
Replied(d, ok) ==
    /\ UNCHANGED <<clientVars, settingsVars, youtubeVars, preexisting, delivery>>
    /\ cmds[d].stage = "replying"
    /\ cmds' = [cmds EXCEPT ![d].stage = "idle"]
    /\ IF ok
       THEN /\ saved' = save_streams(streams)
            /\ UNCHANGED unsaved
       ELSE /\ unsaved' = TRUE
            /\ UNCHANGED saved
    /\ UNCHANGED <<registryOnly, streams>>

\* clipalert_stop (lines 197-216): nothing is awaited before save_streams.
ClipalertStop(d, all) ==
    /\ UNCHANGED <<clientVars, settingsVars, youtubeVars, preexisting, delivery>>
    /\ cmds[d].stage = "idle"
    /\ streams' = clipalert_stop(streams, d, all)
    /\ saved' = save_streams(streams')
    /\ cmds' = [cmds EXCEPT ![d] = [stage |-> "idle", name |-> "", checked |-> "none",
                                    last |-> "stopped"]]
    /\ UNCHANGED <<registryOnly, unsaved>>

RegistryNext ==
    \/ \E d \in Destinations : \E name \in CommandNames : StreamClipAlert(d, name)
    \/ \E d \in Destinations : \E outcome \in CheckOutcomes : CheckExists(d, outcome)
    \/ \E d \in Destinations : \E responses \in {OnePage(<<>>), <<Response(500, <<>>, FALSE)>>} :
           Seeded(d, responses)
    \/ \E d \in Destinations : Replied(d, TRUE)
    \/ \E d \in Destinations : \E all \in BOOLEAN : ClipalertStop(d, all)

RegistrySpec == RegistryInit /\ [][RegistryNext]_vars

\* C13: no snapshot that save_streams has written holds a channel with an
\* empty destination list.
NoEmptyChannelSaved == \A i \in 1..Len(saved) : saved[i].channels # <<>>

\* A toggle removed a channel's last destination and the snapshot written
\* after it is without the channel.
LastDestinationRemoved ==
    \E d \in Destinations :
        /\ cmds[d].stage = "idle"
        /\ cmds[d].last = "removed"
        /\ get_stream(saved, "TwitchStream", "foo") = 0

\* C14: a step in which the existence check of an untracked channel ends
\* with not-found, invalid credentials or an API error changes neither the
\* registry nor the snapshot, and a channel enters the registry only for a
\* command whose check succeeded.
CreatedOnlyAfterCheck ==
    [][/\ (\E d \in Destinations :
              /\ cmds[d].stage = "checking"
              /\ cmds'[d].checked \in {"StreamNotFound", "InvalidTwitchCredentials", "APIError"})
          => (streams' = streams /\ saved' = saved)
       /\ Len(streams') > Len(streams)
          => \E d \in Destinations :
                 /\ cmds[d].stage \in {"idle", "seeding"}
                 /\ cmds'[d].stage = "replying"
                 /\ cmds[d].stage = "seeding" => cmds[d].checked \in {"online", "offline"}
      ]_vars

\* A command for an untracked channel ended with the check reporting
\* not-found.
CheckReportedNotFound ==
    \E d \in Destinations :
        cmds[d].stage = "idle" /\ cmds[d].last = "StreamNotFound"

\* C15: the registry holds no two channels of the same platform whose names
\* are equal without regard to case.
NoDuplicateChannel ==
    \A i, j \in 1..Len(streams) :
        (streams[i].type = streams[j].type /\ Lower[streams[i].name] = Lower[streams[j].name])
            => i = j

-----------------------------------------------------------------------------
(* ConcSpec: a poll cycle with the toggles of tracked channels handled     *)
(* while the cycle is suspended                                            *)

\* The cog has started and check_clips has entered its first cycle (line 402).
ConcInit ==
    /\ now = 0
    /\ LedgerIdle
    /\ ttv_bearer_cache = get_twitch_bearer_token(EmptyCache, Post("ok", Day), 1, 0).cache
    /\ issued = 1
    /\ streams = load_streams(StoredStreams, ttv_bearer_cache)
    /\ saved = StoredStreams
    /\ pc = "cycle"
    /\ idx = 1
    /\ sleeps = 0
    /\ cancel = "none"
    /\ exit = "none"
    /\ sent = {}
    /\ log = <<>>
    /\ at_start = streams
    /\ last_query = [bearer |-> None, cached |-> None]
    /\ renewal = [called |-> FALSE, populated |-> FALSE, remaining |-> 0, posts |-> 0,
                  outcome |-> "none", before |-> EmptyCache, after |-> EmptyCache,
                  proceeded |-> FALSE]
    /\ CommandsIdle
    /\ ClientIdle
    /\ SettingsIdle
    /\ YoutubeIdle
    /\ preexisting = {}
    /\ delivery = NoDelivery

\* A poll of this specification: its token is not expiring, its query
\* returns or fails, and nothing else is raised.
ConcPoll ==
    \E responses \in {OnePage(SubSeq(PolledOrder, 1, 1)), <<Response(500, <<>>, FALSE)>>} :
        CheckStream(NoPost, responses, AllOk, {}, NoHalt)

\* `clipalert twitch` for a channel that is tracked, handled while the
\* cycle is suspended in an await.
ConcToggle ==
    \E d \in Destinations : \E name \in {"foo", "bar"} :
        /\ pc = "cycle"
        /\ get_stream(streams, "TwitchStream", name) # 0
        /\ StreamClipAlert(d, name)

ConcNext ==
    \/ ConcPoll
    \/ EndCycle
    \/ ReadTimer(TRUE)
    \/ ConcToggle
    \/ \E d \in Destinations : \E ok \in BOOLEAN : Replied(d, ok)

ConcSpec == ConcInit /\ [][ConcNext]_vars

\* how often a stream of that name was processed in the current cycle
Visits(name) == Cardinality({k \in 1..Len(visited) : visited[k].name = name})

\* C16: when a poll cycle is over, every channel that was registered from
\* its start to its end has been processed exactly once in it, whatever the
\* commands did to the registry meanwhile.
ProcessedExactlyOnce ==
    pc = "timer" =>
        \A i \in 1..Len(streams) :
            get_stream(at_start, streams[i].type, streams[i].name) # 0
                => Visits(streams[i].name) = 1

\* C18: once the poll cycle and the commands are done (each handler having
\* reached its save_streams), the snapshot is the registry: the same
\* channels, each with its destinations and its ledger.
SnapshotIsRegistry ==
    (pc = "timer" /\ ~unsaved /\ \A d \in Destinations : cmds[d].stage = "idle") =>
        /\ Len(saved) = Len(streams)
        /\ \A i \in 1..Len(streams) :
              /\ saved[i].name = streams[i].name
              /\ saved[i].channels = streams[i].channels
              /\ saved[i].knownclips = streams[i].knownclips

\* A cycle is over in which a channel got a ledger entry and a destination,
\* and the snapshot has both.
ToggleAndLedgerSaved ==
    /\ pc = "timer"
    /\ ~unsaved
    /\ \A d \in Destinations : cmds[d].stage = "idle"
    /\ \E i \in 1..Len(saved) :
          /\ saved[i].knownclips # <<>>
          /\ saved[i].name = "foo"
          /\ saved[i].channels = <<1, 2>>

-----------------------------------------------------------------------------
(* ExpirySpec: one run of the filter over a ledger with entries around the *)
(* retention boundary                                                      *)

\* the longest ledger the run starts from
MaxAged == 3

\* the seconds that may pass before the run
MaxWait == 2

AgedClips == {"A", "B", "C"}

\* Ledger entries discovered, at time 0, the retention ago, a second more
\* and a second less.
AgedEntries ==
    {<<c, ts>> : c \in AgedClips, ts \in {0 - Retention - 1, 0 - Retention, 0 - Retention + 1}}

ExpiryInit ==
    /\ CommandsIdle
    /\ ClientIdle
    /\ SettingsIdle
    /\ YoutubeIdle
    /\ preexisting = {}
    /\ delivery = NoDelivery
    /\ EngineIdle
    /\ now = 0
    /\ novel = <<>>
    /\ run = 0
    /\ first_novel = <<>>
    /\ first_now = 0
    /\ default_existing_data = <<>>
    /\ clip_embeds = <<>>
    /\ emitted = [c \in ClipIds |-> 0]
    /\ following = FALSE
    /\ cycles = <<>>
    /\ registered = TRUE
    /\ created = [c \in ClipIds |-> NotYet]
    /\ knownclips \in {k \in SeqsUpTo(AgedEntries, MaxAged) : Injective(Ids(k))}

\* a second passes before the run
ExpiryWait ==
    /\ UNCHANGED <<clientVars, settingsVars, youtubeVars, preexisting, delivery>>
    /\ run = 0
    /\ now < MaxWait
    /\ now' = now + 1
    /\ UNCHANGED <<created, registered, knownclips, default_existing_data, clip_embeds,
                   novel, emitted, following, cycles, replayVars, engineVars,
                   commandVars, visited>>

\* get_new_clips at time now: run becomes 1 when it returned and 2 when the
\* listing raised.
ExpiryRun(responses) ==
    /\ UNCHANGED <<paging, client, settingsVars, youtubeVars, preexisting, delivery>>
    /\ listed' = ListingCall("get_new_clips", responses, get_all_clips(responses, <<>>))
    /\ run = 0
    /\ LET result == get_new_clips(knownclips, responses, AllOk, now)
       IN  /\ knownclips' = result.knownclips
           /\ clip_embeds' = result.clip_embeds
           /\ run' = IF result.error = "none" THEN 1 ELSE 2
    /\ before' = knownclips
    /\ UNCHANGED <<now, created, registered, default_existing_data, novel, emitted,
                   following, cycles, first_novel, first_now, engineVars, callers,
                   asked, cmds, unsaved, visited>>

ExpiryNext ==
    \/ ExpiryWait
    \/ \E responses \in {OnePage(<<>>), OnePage(<<"A">>), <<Response(500, <<>>, FALSE)>>} :
          ExpiryRun(responses)

ExpirySpec == ExpiryInit /\ [][ExpiryNext]_vars

\* C20: after a run of the filter at time now, the ledger holds no entry
\* that was discovered at now - retention - 1 s and every entry that was
\* discovered at now - retention + 1 s.
ExpiryAroundRetention ==
    run = 1 =>
        \A i \in 1..Len(before) :
            /\ before[i][2] = now - Retention - 1 => before[i] \notin Range(knownclips)
            /\ before[i][2] = now - Retention + 1 => before[i] \in Range(knownclips)

\* A run found an entry a second older than the retention and one a second
\* younger, and kept the younger only.
RunOverBothSides ==
    /\ run = 1
    /\ \E i, j \in 1..Len(before) :
          /\ before[i][2] = now - Retention - 1
          /\ before[j][2] = now - Retention + 1
          /\ before[i] \notin Range(knownclips)
          /\ before[j] \in Range(knownclips)

\* C21: an entry whose age at the run is exactly the retention
\* (discovered at now - 7 days) is still in the ledger after the run.
KeptAtRetention ==
    run = 1 =>
        \A i \in 1..Len(before) :
            before[i][2] = now - Retention => before[i] \in Range(knownclips)

-----------------------------------------------------------------------------
(* MigrationSpec: one run of the filter over a ledger that the version     *)
(* without timestamps wrote, or wrote in part                              *)

\* Ledger entries at time 0: bare ids, and pairs that are new or older than
\* the retention.
LegacyEntries ==
    {<<c>> : c \in AgedClips}
    \cup {<<c, ts>> : c \in AgedClips, ts \in {0 - Retention - 1, 0}}

MigrationInit ==
    /\ CommandsIdle
    /\ ClientIdle
    /\ SettingsIdle
    /\ YoutubeIdle
    /\ preexisting = {}
    /\ delivery = NoDelivery
    /\ EngineIdle
    /\ now = 0
    /\ novel = <<>>
    /\ run = 0
    /\ first_novel = <<>>
    /\ first_now = 0
    /\ default_existing_data = <<>>
    /\ clip_embeds = <<>>
    /\ emitted = [c \in ClipIds |-> 0]
    /\ following = FALSE
    /\ cycles = <<>>
    /\ registered = TRUE
    /\ created = [c \in ClipIds |-> NotYet]
    /\ knownclips \in {k \in SeqsUpTo(LegacyEntries, MaxAged) : Injective(Ids(k))}

MigrationSpec == MigrationInit /\ [][ExpiryNext]_vars

\* C22: a run of the filter that returned has put the pair [id, now] into
\* the ledger for every bare id it found there, and has left pairs only; a
\* run whose listing raised has left the ledger as it was.
LegacyEntriesUpgraded ==
    /\ run = 1 =>
          /\ \A i \in 1..Len(before) :
                ~IsList(before[i]) => <<before[i][1], now>> \in Range(knownclips)
          /\ \A j \in 1..Len(knownclips) : IsList(knownclips[j])
    /\ run = 2 => knownclips = before

\* A run found a bare id next to an entry older than the retention, and the
\* ledger now holds the bare id's pair.
BareIdUpgraded ==
    /\ run = 1
    /\ now > 0
    /\ \E i, j \in 1..Len(before) :
          /\ ~IsList(before[i])
          /\ IsList(before[j])
          /\ before[j][2] < now - Retention
          /\ <<before[i][1], now>> \in Range(knownclips)
          /\ before[j] \notin Range(knownclips)

-----------------------------------------------------------------------------
(* Claims on the ledger of a channel registered by command (E2ESpec)       *)

\* C23: the ledger of a channel holds at most one entry per clip id, after
\* seed_new_streamer and after every poll cycle, whatever the listings
\* repeat.
OneEntryPerClip == Injective(Ids(knownclips))

\* C26: a listing call that returned has returned the items of the pages
\* the backend served to it, in page order, and nothing else: so for the
\* call of get_new_clips and for the call of seed_new_streamer.
ListingIsConcatenation ==
    (listed.by # "none" /\ listed.error = "none") =>
        listed.data = Concatenation(listed.pages)

-----------------------------------------------------------------------------
(* OrderSpec: one run of the filter over any ledger and any listing of     *)
(* up to three clips, in any order, served in one page or in two           *)

OrderListings == SeqsUpTo(AgedClips, MaxListing)

OrderNext ==
    \/ ExpiryWait
    \/ \E listing \in OrderListings :
       \E responses \in {OnePage(listing), TwoPages(listing)} : ExpiryRun(responses)

OrderSpec == MigrationInit /\ [][OrderNext]_vars

\* the first position of x in s
FirstAt(s, x) == CHOOSE i \in 1..Len(s) : s[i] = x /\ \A j \in 1..(i - 1) : s[j] # x

\* the positions of the updated ledger that hold an entry of the previous
\* ledger: the entry itself, or the pair of a bare id
CarriedAt ==
    {j \in 1..Len(knownclips) :
        knownclips[j] \in Range(before) \/ <<knownclips[j][1]>> \in Range(before)}

\* where the entry at position j of the updated ledger stood in the previous
\* one
PreviousAt(j) ==
    CHOOSE i \in 1..Len(before) :
        before[i] = knownclips[j] \/ before[i] = <<knownclips[j][1]>>

\* C24: after a run that returned, the ledger lists the entries carried
\* forward, in the order they had, and after them the newly detected clips
\* in the order the platform listed them; the returned clips are those newly
\* detected ones in that same order.
InsertionOrder ==
    run = 1 =>
        LET fresh == (1..Len(knownclips)) \ CarriedAt
        IN  /\ \A a \in CarriedAt : \A b \in fresh : a < b
            /\ \A a, b \in CarriedAt : a < b => PreviousAt(a) < PreviousAt(b)
            /\ \A a, b \in fresh :
                  a < b => FirstAt(listed.data, knownclips[a][1])
                             < FirstAt(listed.data, knownclips[b][1])
            /\ EmbedIds(clip_embeds)
                  = Ids(SubSeq(knownclips, Len(knownclips) - Cardinality(fresh) + 1,
                               Len(knownclips)))

\* A run carried two entries forward, against the alphabet, and detected
\* behind them a clip whose entry had aged off, listed in the second of two
\* pages.
TwoCarriedOneDetected ==
    /\ run = 1
    /\ Len(before) = 3
    /\ Cardinality(CarriedAt) = 2
    /\ Len(listed.pages) = 2
    /\ listed.data = <<"C", "B", "A">>
    /\ Ids(knownclips) = <<"C", "B", "A">>
    /\ EmbedIds(clip_embeds) = <<"A">>

-----------------------------------------------------------------------------
(* MixerStream (streamtypes.py lines 512-652)                              *)

\* line 541: timedelta(hours=6)
MixerThreshold == 6 * Hour

\* A clip of a Mixer listing: its shareableId and its uploadDate, a UTC time
\* text with a fraction of a second behind a dot ("....1234567Z").  The
\* text is kept as the second, the tenths of the fraction, and whether it
\* holds a dot at all.
MixerClip(id, second, tenths, dot) ==
    [shareableId |-> id, uploadDate |-> [second |-> second, tenths |-> tenths, dot |-> dot]]

\* One HTTP response of the Mixer clips endpoint: the status and the JSON
\* body, a list of clips or null.
MixerResponse(status, data, null) == [status |-> status, data |-> data, null |-> null]

\* the listing served in one page, followed by the page that ends it: an
\* empty list, or null
MixerPages(listing, null) ==
    IF listing = <<>> THEN <<MixerResponse(200, <<>>, null)>>
    ELSE <<MixerResponse(200, listing, FALSE), MixerResponse(200, <<>>, null)>>

\* MixerStream.get_all_clips (lines 618-652): the request after a page with
\* items carries the uploadDate of the page's last item as the continuation
\* token, and the call returns when a page is null or holds no item.
RECURSIVE mixer_get_all_clips(_, _)
mixer_get_all_clips(responses, existing_data) ==
    LET r == Head(responses)
    IN  IF r.status = 200
        THEN IF r.null \/ r.data = <<>>
             THEN Returned(existing_data)
             ELSE mixer_get_all_clips(Tail(responses), existing_data \o r.data)
        ELSE IF r.status = 404
             THEN Raised("StreamNotFound")
             ELSE Raised("APIError")

\* line 540: datetime.fromisoformat(uploadDate.rpartition('.')[0]): the text
\* before the last dot, which is empty when there is no dot (ValueError);
\* the fraction of the second is cut off.
ClipTime(uploadDate) ==
    IF uploadDate.dot
    THEN [error |-> "none", cliptime |-> uploadDate.second]
    ELSE [error |-> "ValueError", cliptime |-> 0]

\* Mutant: line 542 without the test of the time.
MixerRecentAlways(cliptime, t) == TRUE

\* lines 541-542: cliptime > clipthreshold
MixerRecent(cliptime, t) == cliptime > t - MixerThreshold

\* lines 534-545, the loop of MixerStream.get_new_clips over all_clip_data
RECURSIVE MixerScan(_, _, _, _, _)
MixerScan(all_clip_data, known_clips, new_known_clips, embeds, t) ==
    IF all_clip_data = <<>>
    THEN [error |-> "none", knownclips |-> new_known_clips, clip_embeds |-> embeds]
    ELSE LET currentclip == Head(all_clip_data)
             parsed == ClipTime(currentclip.uploadDate)
         IN  IF parsed.error # "none"
             THEN [error |-> parsed.error, knownclips |-> known_clips, clip_embeds |-> <<>>]
             ELSE MixerScan(Tail(all_clip_data), known_clips,
                            Append(new_known_clips, currentclip.shareableId),
                            IF currentclip.shareableId \notin Range(known_clips)
                               /\ MixerRecent(parsed.cliptime, t)
                            THEN Append(embeds, [id |-> currentclip.shareableId,
                                                 uploadDate |-> currentclip.uploadDate])
                            ELSE embeds,
                            t)

\* MixerStream.get_new_clips (lines 526-545), the channel data having been
\* obtained: self.knownclips is assigned on the last line only.
mixer_get_new_clips(known_clips, responses, t) ==
    LET all_clip_data == mixer_get_all_clips(responses, <<>>)
    IN  IF all_clip_data.error # "none"
        THEN [error |-> all_clip_data.error, knownclips |-> known_clips, clip_embeds |-> <<>>]
        ELSE MixerScan(all_clip_data.data, known_clips, <<>>, <<>>, t)

-----------------------------------------------------------------------------
(* MixerSpec: one run of MixerStream.get_new_clips over any ledger and any *)
(* listing of clips uploaded around six hours ago                          *)

\* the longest Mixer listing and the longest Mixer ledger
MaxMixer == 2

MixerIds == {"A", "B"}

\* Clips uploaded six hours before time 0, a second earlier or a second
\* later, on the second or half a second after it, and clips whose
\* uploadDate has no fraction.
MixerClips ==
    {MixerClip(id, 0 - MixerThreshold + d, tenths, TRUE) :
        id \in MixerIds, d \in {-1, 0, 1}, tenths \in {0, 5}}
    \cup {MixerClip(id, 0, 0, FALSE) : id \in MixerIds}

MixerInit ==
    /\ CommandsIdle
    /\ ClientIdle
    /\ SettingsIdle
    /\ YoutubeIdle
    /\ preexisting = {}
    /\ delivery = NoDelivery
    /\ EngineIdle
    /\ now = 0
    /\ novel = <<>>
    /\ run = 0
    /\ first_novel = <<>>
    /\ first_now = 0
    /\ default_existing_data = <<>>
    /\ clip_embeds = <<>>
    /\ emitted = [c \in ClipIds |-> 0]
    /\ following = FALSE
    /\ cycles = <<>>
    /\ registered = TRUE
    /\ created = [c \in ClipIds |-> NotYet]
    /\ knownclips \in SeqsUpTo(MixerIds, MaxMixer)

\* MixerStream.get_new_clips at time now: run becomes 1 when it returned
\* and 2 when it raised.
MixerRun(responses) ==
    /\ run = 0
    /\ LET result == mixer_get_new_clips(knownclips, responses, now)
       IN  /\ knownclips' = result.knownclips
           /\ clip_embeds' = result.clip_embeds
           /\ run' = IF result.error = "none" THEN 1 ELSE 2
    /\ before' = knownclips
    /\ listed' = ListingCall("get_new_clips", responses, mixer_get_all_clips(responses, <<>>))
    /\ UNCHANGED <<now, created, registered, default_existing_data, novel, emitted,
                   following, cycles, first_novel, first_now, engineVars, callers,
                   asked, cmds, unsaved, visited, paging, client, settingsVars, youtubeVars, preexisting, delivery>>

MixerNext ==
    \/ \E listing \in SeqsUpTo(MixerClips, MaxMixer) : \E null \in BOOLEAN :
          MixerRun(MixerPages(listing, null))
    \/ \E status \in {404, 500} : MixerRun(<<MixerResponse(status, <<>>, FALSE)>>)

MixerSpec == MixerInit /\ [][MixerNext]_vars

\* the upload was more than six hours before time t
OlderThanThreshold(uploadDate, t) ==
    10 * uploadDate.second + uploadDate.tenths < 10 * (t - MixerThreshold)

\* C25: every clip MixerStream.get_new_clips returns was absent from the
\* known set and uploaded no more than six hours ago, and a run that raised
\* returns nothing.
MixerEmitsRecentUnknown ==
    /\ \A i \in 1..Len(clip_embeds) :
          /\ clip_embeds[i].id \notin Range(before)
          /\ ~OlderThanThreshold(clip_embeds[i].uploadDate, now)
    /\ run = 2 => clip_embeds = <<>>

\* A run was listed an unknown clip uploaded more than six hours ago and an
\* unknown clip uploaded less than six hours ago, and returned the latter
\* only.
OldUnknownClipWithheld ==
    /\ run = 1
    /\ before = <<>>
    /\ Len(listed.data) = 2
    /\ OlderThanThreshold(listed.data[1].uploadDate, now)
    /\ ~OlderThanThreshold(listed.data[2].uploadDate, now)
    /\ EmbedIds(clip_embeds) = <<listed.data[2].shareableId>>
    /\ listed.data[1].shareableId # listed.data[2].shareableId

-----------------------------------------------------------------------------
(* PageSpec: a clip listing call, request by request, against a backend    *)
(* of finitely many pages                                                  *)

\* the most pages a backend holds
MaxPages == 3

PageItems == {<<>>, <<"A">>, <<"B">>}

\* One page of a Twitch backend: items with or without a cursor, or a
\* refusal.
TwitchPage ==
    {Response(200, data, cursor) : data \in PageItems, cursor \in BOOLEAN}
    \cup {Response(status, <<>>, FALSE) : status \in {404, 500}}

\* One page of a Mixer backend: a list of clips (their shareableIds here),
\* null, or a refusal.
MixerPage ==
    {MixerResponse(200, data, FALSE) : data \in PageItems}
    \cup {MixerResponse(200, <<>>, TRUE)}
    \cup {MixerResponse(status, <<>>, FALSE) : status \in {404, 500}}

\* Mutant: line 298 taking every page to hold a cursor.
TwitchContinuesAlways(r) == TRUE

\* line 298: `if data['pagination']`
TwitchContinues(r) == r.cursor

\* lines 631-644: data is not None and the loop over it ran at least once
MixerContinues(r) == ~r.null /\ r.data # <<>>

\* whether the page hands the client a continuation token
HasToken(platform, r) ==
    r.status = 200 /\ IF platform = "twitch" THEN r.cursor ELSE ~r.null /\ r.data # <<>>

\* The backends: up to MaxPages pages, the last of which hands out no token.
Backends(platform) ==
    {pages \in SeqsUpTo(IF platform = "twitch" THEN TwitchPage ELSE MixerPage, MaxPages) :
        pages # <<>> /\ ~HasToken(platform, pages[Len(pages)])}

PageInit ==
    /\ CommandsIdle
    /\ SettingsIdle
    /\ YoutubeIdle
    /\ preexisting = {}
    /\ delivery = NoDelivery
    /\ EngineIdle
    /\ LedgerIdle
    /\ now = 0
    /\ listed = NoListing
    /\ client = <<>>
    /\ \E platform \in {"twitch", "mixer"} : \E pages \in Backends(platform) :
          paging = [platform |-> platform, pages |-> pages, existing_data |-> <<>>,
                    at |-> "requesting", requests |-> 0, served |-> <<>>]

\* TwitchStream.get_all_clips, lines 288-305: one request and what follows
\* from its response.
TwitchRequest ==
    /\ paging.platform = "twitch"
    /\ paging.at = "requesting"
    /\ paging.pages # <<>>
    /\ LET r == Head(paging.pages)
       IN  paging' = [paging EXCEPT
                        !.pages = Tail(@),
                        !.requests = @ + 1,
                        !.served = Append(@, r),
                        !.existing_data = IF r.status = 200 THEN @ \o r.data ELSE @,
                        !.at = IF r.status # 200 THEN "raised"
                               ELSE IF TwitchContinues(r) THEN "requesting"
                               ELSE "returned"]
    /\ UNCHANGED <<ledgerVars, replayVars, engineVars, commandVars, visited, listed,
                   client, settingsVars, youtubeVars, preexisting, delivery>>

\* MixerStream.get_all_clips, lines 627-652: one request and what follows
\* from its response.
MixerRequest ==
    /\ paging.platform = "mixer"
    /\ paging.at = "requesting"
    /\ paging.pages # <<>>
    /\ LET r == Head(paging.pages)
       IN  paging' = [paging EXCEPT
                        !.pages = Tail(@),
                        !.requests = @ + 1,
                        !.served = Append(@, r),
                        !.existing_data = IF r.status = 200 /\ ~r.null THEN @ \o r.data ELSE @,
                        !.at = IF r.status # 200 THEN "raised"
                               ELSE IF MixerContinues(r) THEN "requesting"
                               ELSE "returned"]
    /\ UNCHANGED <<ledgerVars, replayVars, engineVars, commandVars, visited, listed,
                   client, settingsVars, youtubeVars, preexisting, delivery>>

PageNext ==
    \/ TwitchRequest
    \/ MixerRequest

\* Each request is answered: the response of session.get arrives.
PageSpec ==
    PageInit /\ [][PageNext]_vars /\ WF_vars(TwitchRequest) /\ WF_vars(MixerRequest)

\* C27: no request is made after a page that handed out no continuation
\* token (a Twitch page with an empty pagination object, a Mixer call that
\* returned no item), and against a backend of finitely many pages the call
\* comes to its end.
ListingStopsAtLastToken ==
    /\ [](\A i \in 1..(Len(paging.served) - 1) : HasToken(paging.platform, paging.served[i]))
    /\ [](paging.at = "returned" =>
             /\ paging.served # <<>>
             /\ ~HasToken(paging.platform, paging.served[Len(paging.served)]))
    /\ (paging.at = "requesting") ~> (paging.at \in {"returned", "raised"})

\* A Twitch call returned after its second page, which held no cursor,
\* while the backend held a third.
StoppedBeforeLastPage ==
    /\ paging.platform = "twitch"
    /\ paging.at = "returned"
    /\ paging.requests = 2
    /\ Len(paging.pages) = 1
    /\ paging.existing_data = <<"A", "B">>

-----------------------------------------------------------------------------
(* ClientSpec: the Twitch client operations and the HTTP status they meet  *)

\* how many operations a history holds
MaxCalls == 2

\* the statuses the Twitch API answers with
Statuses == {200, 400, 401, 404, 500}

\* TwitchStream.fetch_id (lines 424-443): what it raises for a status, the
\* body of a 200 holding the user or not.
fetch_id(status, found) ==
    IF status = 200 THEN (IF found THEN "none" ELSE "StreamNotFound")
    ELSE IF status = 400 THEN "StreamNotFound"
    ELSE IF status = 401 THEN "InvalidTwitchCredentials"
    ELSE "APIError"

\* TwitchStream.is_online (lines 357-421), self.id being set: what it raises
\* for the status of the streams request, the body of a 200 holding a
\* stream or not.
is_online(status, found) ==
    IF status = 200 THEN (IF found THEN "none" ELSE "OfflineStream")
    ELSE IF status = 400 THEN "InvalidTwitchCredentials"
    ELSE IF status = 404 THEN "StreamNotFound"
    ELSE "APIError"

\* what the operation raises for the status of its request
Raises(op, status, found) ==
    IF op = "fetch_id" THEN fetch_id(status, found)
    ELSE IF op = "is_online" THEN is_online(status, found)
    ELSE get_all_clips(<<Response(status, IF found THEN <<"A">> ELSE <<>>, FALSE)>>, <<>>).error

Operations == {"fetch_id", "is_online", "get_all_clips"}

ClientInit ==
    /\ CommandsIdle
    /\ ClientIdle
    /\ SettingsIdle
    /\ YoutubeIdle
    /\ preexisting = {}
    /\ delivery = NoDelivery
    /\ EngineIdle
    /\ LedgerIdle
    /\ now = 0

\* One operation of the client and the answer of the API to it.
ClientCall(op, status, found) ==
    /\ Len(client) < MaxCalls
    /\ client' = Append(client, [op |-> op, status |-> status,
                                 raised |-> Raises(op, status, found)])
    /\ UNCHANGED <<ledgerVars, replayVars, engineVars, commandVars, visited, listed,
                   paging, settingsVars, youtubeVars, preexisting, delivery>>

ClientNext ==
    \E op \in Operations : \E status \in Statuses : \E found \in BOOLEAN :
        ClientCall(op, status, found)

ClientSpec == ClientInit /\ [][ClientNext]_vars

\* C28: every operation of the Twitch client has raised the
\* invalid-credentials error for a 400, channel-not-found for a 404 and
\* the API error for any other status but 200.
StatusMapping ==
    \A i \in 1..Len(client) :
        /\ client[i].status = 400 => client[i].raised = "InvalidTwitchCredentials"
        /\ client[i].status = 404 => client[i].raised = "StreamNotFound"
        /\ client[i].status \notin {200, 400, 404} => client[i].raised = "APIError"

-----------------------------------------------------------------------------
(* CredentialSpec: the engine with the Twitch keys of the bot incomplete,  *)
(* or changed while it runs                                                *)

\* The keys `set api twitch` may hold: both, the client id alone, none.
Keys ==
    {BothKeys, [client_id |-> TRUE, client_secret |-> FALSE],
     [client_id |-> FALSE, client_secret |-> FALSE]}

\* The token endpoint issues a token to complete keys only.
Answers(keys) == IF keys = BothKeys THEN Posts ELSE {Post(o, 0) : o \in FailedPosts}

CredentialInit ==
    /\ CommandsIdle
    /\ ClientIdle
    /\ now = 0
    /\ LedgerIdle
    /\ ttv_bearer_cache = EmptyCache
    /\ issued = 0
    /\ streams = <<>>
    /\ saved = StoredStreams
    /\ pc = "init"
    /\ idx = 1
    /\ sleeps = 0
    /\ cancel = "none"
    /\ exit = "none"
    /\ sent = {}
    /\ log = <<>>
    /\ at_start = <<>>
    /\ last_query = [bearer |-> None, cached |-> None]
    /\ renewal = [called |-> FALSE, populated |-> FALSE, remaining |-> 0, posts |-> 0,
                  outcome |-> "none", before |-> EmptyCache, after |-> EmptyCache,
                  proceeded |-> FALSE]
    /\ tokens \in Keys
    /\ owner_messages = 0
    /\ refresh_timer = DefaultRefreshTimer
    /\ last_timer = NoTimerCommand
    /\ interval = DefaultRefreshTimer
    /\ YoutubeIdle
    /\ preexisting = {}
    /\ delivery = NoDelivery

\* bot.set_shared_api_tokens / remove_shared_api_tokens: the keys that
\* get_shared_api_tokens("twitch") returns (line 107) are changed.
SetApiTokens(keys) ==
    /\ tokens # keys
    /\ tokens' = keys
    /\ UNCHANGED <<ledgerVars, replayVars, engineVars, commandVars, visited, clientVars, youtubeVars, preexisting, delivery,
                   owner_messages, refresh_timer, last_timer, interval>>

\* An iteration of check_clips whose listing holds no clip.
CredentialPoll ==
    \E post \in IF Renews(ttv_bearer_cache, now) THEN Answers(tokens) ELSE {NoPost} :
        CheckStream(post, OnePage(<<>>), AllOk, {}, NoHalt)

CredentialNext ==
    \/ \E post \in Answers(tokens) : Initialize(post)
    \/ CredentialPoll
    \/ EndCycle
    \/ ReadTimer(TRUE)
    \/ Wake
    \/ \E keys \in Keys : SetApiTokens(keys)

CredentialSpec == CredentialInit /\ [][CredentialNext]_vars

\* C29: whatever the keys are and however many cycles and channels run, the
\* bot owners are sent the message about the credentials at most once.
OwnersNotifiedOnce == owner_messages <= 1

-----------------------------------------------------------------------------
(* TimerSpec: `clipset timer` commands while the engine polls and sleeps   *)

\* line 306: the shortest refresh time the command accepts
MinRefreshTimer == 60

\* the refresh times the command is given
RefreshTimes == {-1, 0, MinRefreshTimer - 1, MinRefreshTimer, MinRefreshTimer + 1, 2 * DefaultRefreshTimer}

\* Mutant: line 306 rejecting nothing.
TooShortNever(refresh_time) == FALSE

\* line 306
TooShort(refresh_time) == refresh_time < MinRefreshTimer

\* _clipset_refresh_timer (lines 304-312)
ClipsetRefreshTimer(refresh_time) ==
    /\ refresh_timer' = IF TooShort(refresh_time) THEN refresh_timer ELSE refresh_time
    /\ last_timer' = [refresh_time |-> refresh_time, stored |-> refresh_timer,
                      replied |-> IF TooShort(refresh_time) THEN "rejected" ELSE "set"]
    /\ UNCHANGED <<ledgerVars, replayVars, engineVars, commandVars, visited, clientVars, youtubeVars, preexisting, delivery,
                   tokens, owner_messages, interval>>

\* An iteration of check_clips with a token that is not expiring and a
\* listing of one clip or none.
TimerPoll ==
    \E listing \in {<<>>, <<"A">>} :
        /\ ~Renews(ttv_bearer_cache, now)
        /\ CheckStream(NoPost, OnePage(listing), AllOk, {}, NoHalt)

TimerNext ==
    \/ \E refresh_time \in RefreshTimes : ClipsetRefreshTimer(refresh_time)
    \/ Wake
    \/ TimerPoll
    \/ EndCycle
    \/ ReadTimer(TRUE)

TimerSpec == ConcInit /\ [][TimerNext]_vars

\* C30: the stored poll interval is never below 60 seconds; the last
\* `clipset timer` command, given less than 60, was rejected and left the
\* stored interval as it was, and given 60 or more, stored what it was
\* given.
IntervalAtLeastMinimum ==
    /\ refresh_timer >= 60
    /\ last_timer.replied # "none" =>
          IF last_timer.refresh_time < 60
          THEN last_timer.replied = "rejected" /\ refresh_timer = last_timer.stored
          ELSE last_timer.replied = "set" /\ refresh_timer = last_timer.refresh_time

\* The interval was set to 61 seconds, the engine slept that long, and a
\* command giving 59 seconds was rejected.
ShortIntervalRejected ==
    /\ last_timer = [refresh_time |-> 59, stored |-> 61, replied |-> "rejected"]
    /\ refresh_timer = 61
    /\ interval = 61
    /\ now = 61

-----------------------------------------------------------------------------
(* StopSpec: `clipalert stop` on registries whose channels alert two       *)
(* servers                                                                 *)

\* a destination of another server than the one of Destinations
ElsewhereDestination == 3

\* line 198: local_channel_ids, the channels of the server (ctx.guild) that
\* the channel belongs to.  The destinations commands are sent from are the
\* two channels of one server.
LocalChannelIds(channel_id) ==
    IF channel_id \in Destinations THEN Destinations ELSE {ElsewhereDestination}

\* the destination lists a stored channel may hold
StopChannelLists ==
    {c \in SeqsUpTo(Destinations \cup {ElsewhereDestination}, 3) : c # <<>> /\ Injective(c)}

\* The cog has started from a snapshot of two channels.
StopInit ==
    /\ CommandsIdle
    /\ ClientIdle
    /\ SettingsIdle
    /\ YoutubeIdle
    /\ preexisting = {}
    /\ delivery = NoDelivery
    /\ now = 0
    /\ LedgerIdle
    /\ ttv_bearer_cache = get_twitch_bearer_token(EmptyCache, Post("ok", Day), 1, 0).cache
    /\ issued = 1
    /\ \E foo \in StopChannelLists : \E bar \in StopChannelLists :
          saved = <<[name |-> "foo", type |-> "TwitchStream", channels |-> foo,
                     knownclips |-> <<>>],
                    [name |-> "bar", type |-> "TwitchStream", channels |-> bar,
                     knownclips |-> <<>>]>>
    /\ streams = load_streams(saved, ttv_bearer_cache)
    /\ pc = "sleep"
    /\ idx = 1
    /\ sleeps = 0
    /\ cancel = "none"
    /\ exit = "none"
    /\ sent = {}
    /\ log = <<>>
    /\ at_start = <<>>
    /\ last_query = [bearer |-> None, cached |-> None]
    /\ renewal = [called |-> FALSE, populated |-> FALSE, remaining |-> 0, posts |-> 0,
                  outcome |-> "none", before |-> EmptyCache, after |-> EmptyCache,
                  proceeded |-> FALSE]

StopNext == \E d \in Destinations : \E all \in BOOLEAN : ClipalertStop(d, all)

StopSpec == StopInit /\ [][StopNext]_vars

\* the destinations of the list that are not channels of the server
Elsewhere(channels, local_channel_ids) ==
    SelectSeq(channels, LAMBDA c : c \notin local_channel_ids)

\* C31: a step of `clipalert stop yes` leaves no channel with a destination
\* of the invoking server, and leaves every channel the destinations it had
\* in other servers.
StopAllRemovesOwnServer ==
    [][\A d \in Destinations :
          ClipalertStop(d, TRUE) =>
              /\ \A i \in 1..Len(streams') :
                    Range(streams'[i].channels) \cap LocalChannelIds(d) = {}
              /\ \A i \in 1..Len(streams) :
                    Elsewhere(streams[i].channels, LocalChannelIds(d)) # <<>> =>
                        \E j \in 1..Len(streams') :
                            /\ streams'[j].name = streams[i].name
                            /\ streams'[j].channels
                                  = Elsewhere(streams[i].channels, LocalChannelIds(d))]_vars

-----------------------------------------------------------------------------
\* YoutubeStream.is_online (streamtypes.py, lines 97-154): the two rolling
\* lists of one YoutubeStream object over a sequence of probes.

MaxProbes == 3
MaxFeed == 2
VideoIds == {"v1", "v2", "v3"}

\* What the videos endpoint answers for one video: a live stream (an
\* actualStartTime and no actualEndTime), anything else, or a body whose
\* items list is empty.
VideoAnswers == {"live", "ended", "no_items"}

\* list(dict.fromkeys(l)) (lines 111-115): the first occurrence of each id
RECURSIVE fromkeys(_)
fromkeys(l) ==
    IF l = <<>> THEN <<>>
    ELSE LET front == fromkeys(SubSeq(l, 1, Len(l) - 1))
             last == l[Len(l)]
         IN  IF last \in Range(front) THEN front ELSE Append(front, last)

\* line 118: if video_id in self.not_livestreams: continue
KnownNotLiveNever(video_id, not_live) == FALSE

KnownNotLive(video_id, not_live) == video_id \in Range(not_live)

\* The loop of lines 117-139 from position i of the feed.  A body without
\* an item raises at line 130 and ends the call with the lists as they are.
RECURSIVE probe_videos(_, _, _, _, _)
probe_videos(feed, answers, i, live, not_live) ==
    IF i > Len(feed)
    THEN [livestreams |-> live, not_livestreams |-> not_live, exc |-> "none"]
    ELSE LET video_id == feed[i]
         IN  IF KnownNotLive(video_id, not_live)
             THEN probe_videos(feed, answers, i + 1, live, not_live)
             ELSE IF answers[i] = "no_items"
             THEN [livestreams |-> live, not_livestreams |-> not_live,
                   exc |-> "IndexError"]
             ELSE IF answers[i] = "live"
             THEN probe_videos(feed, answers, i + 1,
                               IF video_id \notin Range(live)
                               THEN Append(live, video_id) ELSE live,
                               not_live)
             ELSE probe_videos(feed, answers, i + 1,
                               IF video_id \in Range(live)
                               THEN RemoveFirst(live, video_id) ELSE live,
                               Append(not_live, video_id))

youtube_is_online(live, not_live, feed, answers) ==
    LET looped == probe_videos(feed, answers, 1,
                               IF live # <<>> THEN fromkeys(live) ELSE live,
                               IF not_live # <<>> THEN fromkeys(not_live) ELSE not_live)
    IN  IF looped.exc = "none" /\ looped.livestreams = <<>>
        THEN [looped EXCEPT !.exc = "OfflineStream"]
        ELSE looped

Feeds == SeqsUpTo(VideoIds, MaxFeed)

YoutubeInit ==
    /\ CommandsIdle
    /\ ClientIdle
    /\ SettingsIdle
    /\ YoutubeIdle
    /\ preexisting = {}
    /\ delivery = NoDelivery
    /\ EngineIdle
    /\ LedgerIdle
    /\ now = 0

\* One call of is_online on the object, with the feed the channel serves and
\* the answer each of its video queries meets.
IsOnline(feed, answers) ==
    /\ probe.n < MaxProbes
    /\ LET got == youtube_is_online(livestreams, not_livestreams, feed, answers)
       IN  /\ livestreams' = got.livestreams
           /\ not_livestreams' = got.not_livestreams
           /\ probe' = [n |-> probe.n + 1, repeated |-> ~Injective(feed),
                        ended |-> Range(livestreams) \cap Range(got.not_livestreams),
                        exc |-> got.exc]
    /\ UNCHANGED <<ledgerVars, replayVars, engineVars, commandVars, visited, clientVars,
                   settingsVars, preexisting, delivery>>

YoutubeNext ==
    \E feed \in Feeds : \E answers \in [1..Len(feed) -> VideoAnswers] :
        IsOnline(feed, answers)

YoutubeSpec == YoutubeInit /\ [][YoutubeNext]_vars

\* the ids of list that are still in after, in the order of list
Remaining(list, after) == SelectSeq(list, LAMBDA v : v \in Range(after))

\* after holds what it keeps of list in the order of list, and what it gained
\* behind that
OrderKept(list, after) ==
    \E k \in 0..Len(after) :
        /\ SubSeq(after, 1, k) = Remaining(list, after)
        /\ \A i \in (k + 1)..Len(after) : after[i] \notin Range(list)

\* C32: after any sequence of is_online probes neither livestreams nor
\* not_livestreams holds a video id twice, no video id is in both lists, and
\* each probe keeps the ids that stay in a list in the order they were
\* inserted, the ids it adds going behind them.
RollingListsKept ==
    /\ [](/\ Injective(livestreams)
          /\ Injective(not_livestreams)
          /\ Range(livestreams) \cap Range(not_livestreams) = {})
    /\ [][/\ OrderKept(livestreams, livestreams')
          /\ OrderKept(not_livestreams, not_livestreams')]_vars

\* A probe whose feed lists a video twice has moved a video that was live
\* to not_livestreams, with another video still live and two videos ended.
VideoMovedToNotLive ==
    /\ probe.n >= 2
    /\ probe.repeated
    /\ probe.ended # {}
    /\ livestreams # <<>>
    /\ Len(not_livestreams) >= 2

-----------------------------------------------------------------------------
(* MixerPollSpec: a Mixer channel over several poll cycles, the platform   *)
(* listing any of its clips in each, a clip left out or listed twice       *)
(* included                                                                *)

\* Clip A is uploaded five minutes before the first cycle; clip B is
\* uploaded so that it passes the six-hour test in the first two cycles only.
Uploaded(id) ==
    IF id = "A" THEN MixerClip(id, 0 - DefaultRefreshTimer, 0, TRUE)
    ELSE MixerClip(id, DefaultRefreshTimer + (DefaultRefreshTimer \div 2) - MixerThreshold,
                   5, TRUE)

MixerListings == {[i \in 1..Len(ids) |-> Uploaded(ids[i])] : ids \in SeqsUpTo(MixerIds, MaxMixer)}

MixerPollInit ==
    /\ MixerInit
    /\ knownclips = <<>>

\* One iteration of check_clips for the channel (streamclips.py lines
\* 409-412) and the sleep that follows the cycle (line 397): run counts the
\* cycles, emitted the cycles in which a clip was returned as new.
MixerPoll(responses) ==
    /\ run < MaxCycles
    /\ LET result == mixer_get_new_clips(knownclips, responses, now)
       IN  /\ knownclips' = result.knownclips
           /\ clip_embeds' = result.clip_embeds
           /\ emitted' = [c \in ClipIds |->
                            IF c \in Range(EmbedIds(result.clip_embeds))
                            THEN emitted[c] + 1 ELSE emitted[c]]
    /\ run' = run + 1
    /\ now' = now + DefaultRefreshTimer
    /\ before' = knownclips
    /\ listed' = ListingCall("get_new_clips", responses, mixer_get_all_clips(responses, <<>>))
    /\ UNCHANGED <<created, registered, default_existing_data, novel,
                   following, cycles, first_novel, first_now, engineVars, callers,
                   asked, cmds, unsaved, visited, paging, client, settingsVars, youtubeVars, preexisting, delivery>>

MixerPollNext ==
    \/ \E listing \in MixerListings : MixerPoll(MixerPages(listing, FALSE))
    \/ MixerPoll(<<MixerResponse(500, <<>>, FALSE)>>)

MixerPollSpec == MixerPollInit /\ [][MixerPollNext]_vars

\* C33: over any sequence of Mixer poll cycles a clip id is returned as new
\* by MixerStream.get_new_clips in at most one cycle, also when a listing
\* leaves the clip out in one cycle and a later listing holds it again, and
\* when one listing holds it twice.
MixerEmittedInOneCycle == \A c \in ClipIds : emitted[c] <= 1

-----------------------------------------------------------------------------
(* FetchSpec: poll cycles over channels whose ledgers hold an expired and  *)
(* a current entry, the platform query of an iteration returning or        *)
(* raising                                                                 *)

\* config.streams after more than seven days of operation: foo's ledger
\* holds clip A, detected at time 0, and clip B, detected a second ago.
AgedStreams ==
    <<[name |-> "foo", type |-> "TwitchStream", channels |-> <<1>>,
       knownclips |-> <<<<"A", 0>>, <<"B", Retention>>>>],
      [name |-> "bar", type |-> "TwitchStream", channels |-> <<1, 2>>,
       knownclips |-> <<>>]>>

\* The cog has started and check_clips has entered a cycle at time
\* Retention + 1, when A is past its retention.
FetchInit ==
    /\ now = Retention + 1
    /\ LedgerIdle
    /\ ttv_bearer_cache = get_twitch_bearer_token(EmptyCache, Post("ok", Day), 1, now).cache
    /\ issued = 1
    /\ streams = load_streams(AgedStreams, ttv_bearer_cache)
    /\ saved = AgedStreams
    /\ pc = "cycle"
    /\ idx = 1
    /\ sleeps = 0
    /\ cancel = "none"
    /\ exit = "none"
    /\ sent = {}
    /\ log = <<>>
    /\ at_start = streams
    /\ last_query = [bearer |-> None, cached |-> None]
    /\ renewal = [called |-> FALSE, populated |-> FALSE, remaining |-> 0, posts |-> 0,
                  outcome |-> "none", before |-> EmptyCache, after |-> EmptyCache,
                  proceeded |-> FALSE]
    /\ CommandsIdle
    /\ ClientIdle
    /\ SettingsIdle
    /\ YoutubeIdle
    /\ preexisting = {}
    /\ delivery = NoDelivery

\* The clips endpoint answers 404, 500, or 500 on the second page after a
\* first page listing clip C.
FetchFailures == Failing(<<"C">>)

\* An iteration of check_clips whose get_new_clips raises.
FetchRaises ==
    \E responses \in FetchFailures :
        /\ ~Renews(ttv_bearer_cache, now)
        /\ CheckStream(NoPost, responses, AllOk, {}, NoHalt)

\* An iteration of check_clips whose get_new_clips returns, with no clip or
\* with clip C.
FetchReturns ==
    \E listing \in {<<>>, <<"C">>} :
        /\ ~Renews(ttv_bearer_cache, now)
        /\ CheckStream(NoPost, OnePage(listing), AllOk, {}, NoHalt)

FetchNext ==
    \/ FetchRaises
    \/ FetchReturns
    \/ EndCycle
    \/ ReadTimer(TRUE)
    \/ Wake

FetchSpec == FetchInit /\ [][FetchNext]_vars

\* C34: an iteration whose clip fetch raises (404, 500, or 500 on a later
\* page) leaves the channel's ledger as it was when the cycle started, with
\* its expired entries and without the clips of the pages it got, sends no
\* notification, and goes on to the next channel; no channel is processed
\* twice in a cycle.
FetchFailureLeavesLedger ==
    /\ [][FetchRaises =>
             /\ streams'[idx].knownclips = at_start[idx].knownclips
             /\ streams' = streams
             /\ saved' = saved
             /\ sent' = sent
             /\ idx' = idx + 1]_vars
    /\ [](/\ \A k \in 1..Len(visited) : Visits(visited[k].name) = 1
          /\ \A i \in 1..Len(log) :
                ~log[i].completed =>
                    /\ streams[i].knownclips = at_start[i].knownclips
                    /\ \A n \in sent : n[1] # streams[i].name)

\* A cycle is over in which foo's fetch raised, its ledger still holding
\* the expired clip A, and bar notified a destination of clip C.
FetchRaisedForOneChannel ==
    /\ pc = "timer"
    /\ Len(log) = 2
    /\ ~log[1].completed
    /\ log[2].completed
    /\ Ids(streams[1].knownclips) = <<"A", "B">>
    /\ <<"bar", 1, "C">> \in sent

-----------------------------------------------------------------------------
(* MixerSeedSpec: `clipalert mixer` registers a channel, which is then     *)
(* polled                                                                  *)

\* MixerStream.seed_new_streamer (lines 514-524): the ids of the listing
\* become the ledger.
mixer_seed_new_streamer(responses) ==
    LET all_clip_data == mixer_get_all_clips(responses, <<>>)
    IN  IF all_clip_data.error # "none"
        THEN [error |-> all_clip_data.error, knownclips |-> <<>>]
        ELSE [error |-> "none",
              knownclips |-> [i \in 1..Len(all_clip_data.data) |->
                                 all_clip_data.data[i].shareableId]]

MixerSeedInit ==
    /\ CommandsIdle
    /\ ClientIdle
    /\ SettingsIdle
    /\ YoutubeIdle
    /\ preexisting = {}
    /\ delivery = NoDelivery
    /\ EngineIdle
    /\ LedgerIdle
    /\ now = 0

\* stream_clip_alert for a Mixer channel that is not tracked (streamclips.py
\* lines 247-294): seed_new_streamer is awaited before add_or_remove, and an
\* exception it raises ends the command with the channel not registered.
MixerStreamClipAlert(responses) ==
    /\ ~registered
    /\ LET got == mixer_seed_new_streamer(responses)
       IN  IF got.error = "none"
           THEN /\ knownclips' = got.knownclips
                /\ registered' = TRUE
                /\ preexisting' = Range(got.knownclips)
           ELSE UNCHANGED <<knownclips, registered, preexisting>>
    /\ listed' = ListingCall("seed_new_streamer", responses, mixer_get_all_clips(responses, <<>>))
    /\ UNCHANGED <<now, created, default_existing_data, clip_embeds, novel, emitted,
                   following, cycles, replayVars, engineVars, commandVars, visited,
                   paging, client, settingsVars, youtubeVars, delivery>>

\* A poll cycle over the registered channel.
MixerSeededPoll(responses) ==
    /\ registered
    /\ MixerPoll(responses)

MixerSeedNext ==
    \/ \E listing \in MixerListings : MixerStreamClipAlert(MixerPages(listing, FALSE))
    \/ MixerStreamClipAlert(<<MixerResponse(500, <<>>, FALSE)>>)
    \/ \E listing \in MixerListings : MixerSeededPoll(MixerPages(listing, FALSE))
    \/ MixerSeededPoll(<<MixerResponse(500, <<>>, FALSE)>>)

MixerSeedSpec == MixerSeedInit /\ [][MixerSeedNext]_vars

\* C35: no clip that the platform listed to the seed_new_streamer call of
\* the channel's registration is returned as new by a later poll cycle.
SeededNeverEmitted == \A c \in preexisting : emitted[c] = 0

-----------------------------------------------------------------------------
(* DeliverySpec: poll cycles in which the sending of a notification may    *)
(* raise, with the history of the clips whose sending raised               *)

\* What the get_new_clips of the iteration at idx returns as new.
Emitted(listing) ==
    Range(EmbedIds(get_new_clips(streams[idx].knownclips, OnePage(listing), AllOk,
                                 now).clip_embeds))

\* How an iteration that got its clips ends: it completes, save_streams
\* raises (line 413), or channel.send raises for a destination (line 447).
DeliveryHalts(stream) ==
    {NoHalt, Halt("save", 0, "Exception")}
    \cup {Halt("send", dest, "Exception") : dest \in 1..Len(stream.channels)}

\* An iteration of check_clips whose token is not expiring and whose query
\* returns.  delivery.failed gains the clips of the iteration when a send
\* raised in it; delivery.relisted and delivery.again gain the clips of
\* delivery.failed that the iteration was listed and returned as new.
DeliveryPoll ==
    /\ pc = "cycle"
    /\ idx <= Len(streams)
    /\ ~Renews(ttv_bearer_cache, now)
    /\ \E listing \in Polled : \E halt \in DeliveryHalts(streams[idx]) :
          /\ CheckClipsBody(NoPost, OnePage(listing), AllOk, {}, halt)
          /\ LET clips == {<<streams[idx].name, c>> : c \in Emitted(listing)}
             IN  delivery' = [failed |-> IF halt.at = "send"
                                         THEN delivery.failed \cup clips
                                         ELSE delivery.failed,
                              relisted |-> delivery.relisted
                                  \cup ({<<streams[idx].name, c>> : c \in Range(listing)}
                                        \cap delivery.failed),
                              again |-> delivery.again \cup (clips \cap delivery.failed)]

DeliveryNext ==
    \/ DeliveryPoll
    \/ EndCycle
    \/ ReadTimer(TRUE)
    \/ Wake

DeliverySpec == ConcInit /\ [][DeliveryNext]_vars

\* the clip is in the channel's ledger of the registry
Committed(registry, name, clip) ==
    \E i \in 1..Len(registry) :
        /\ registry[i].name = name
        /\ clip \in Range(Ids(registry[i].knownclips))

\* C36: a clip is in the channel's ledger, in the registry and in the stored
\* snapshot, when a notification of it has been sent or its sending has
\* raised, and a clip whose sending raised is not returned as new by any later
\* cycle.
DeliveredAtMostOnce ==
    /\ \A n \in sent : Committed(streams, n[1], n[3]) /\ Committed(saved, n[1], n[3])
    /\ \A f \in delivery.failed :
          Committed(streams, f[1], f[2]) /\ Committed(saved, f[1], f[2])
    /\ delivery.again = {}

\* In the second cycle bar has been listed clip A again, whose sending
\* raised in the first cycle; its iteration got to the end of its
\* save_streams and nothing has been sent for bar.
FailedDeliveryNotRepeated ==
    /\ sleeps = 1
    /\ <<"bar", "A">> \in delivery.relisted
    /\ Len(visited) = 2
    /\ visited[2].name = "bar"
    /\ visited[2].stored
    /\ \A n \in sent : n[1] # "bar"

====
